---- MODULE Spec2Model ----
(***************************************************************************)
(* System-profile ingestion of the host inventory (tasks/__init__.py):     *)
(* the consumer loop started by start_consumer, the profile update handler *)
(* msg_handler, the host rows it writes and the metrics it records.        *)
(***************************************************************************)
EXTENDS Integers, Sequences, FiniteSets, TLC

\* ------------------------------------------------------------------ bounds

\* Number of messages the input stream delivers in one run.
MaxMsgs == 4

\* ------------------------------------------------------------- JSON values

\* Python's None / JSON null; ids are strings, so null is a reserved one.
None == "<None>"

\* Exceptions are named by their class; NoExc is "no exception is pending".
NoExc == "<no exception>"

\* Keys of the system profile that SystemProfileSchema declares.
SchemaFields == {"number_of_cpus", "arch"}

\* Values each declared key accepts.
FieldValues(k) == IF k = "number_of_cpus" THEN {"1", "2"} ELSE {"x86_64", "arm"}

\* Raw system_profile documents found in messages.
EmptyProfile == [k \in {} |-> ""]
ProfileCpus == [number_of_cpus |-> "1", unknown_field |-> "x"]
ProfileArch == [arch |-> "x86_64"]
ProfileBad == [number_of_cpus |-> "many"]
RawProfiles == {EmptyProfile, ProfileCpus, ProfileArch, ProfileBad}

\* Host ids: two hosts exist, "h3" is the id of no host.
Hosts == {"h1", "h2"}
MissingHost == "h3"

\* A decoded JSON value: an object with its members, or a number.
JsonObject(members) == [type |-> "object", members |-> members]
JsonNumber == [type |-> "number"]

\* The decoded documents the stream carries.
FullDocs ==
    {[id |-> i, request_id |-> "r1", system_profile |-> p] :
        i \in Hosts, p \in RawProfiles \ {EmptyProfile}}
    \cup {[id |-> i, request_id |-> "r1", system_profile |-> ProfileCpus] :
        i \in {None, "", MissingHost}}
    \cup {[id |-> MissingHost, request_id |-> "r1", system_profile |-> ProfileBad],
          [id |-> "h1", request_id |-> "r1", system_profile |-> EmptyProfile]}

\* Objects that lack one of the keys the handler reads.
PartialDocs ==
    {[request_id |-> "r1", system_profile |-> ProfileCpus],
     [id |-> "h1", system_profile |-> ProfileCpus],
     [id |-> "h1", request_id |-> "r1"]}

\* msg.value: the text of a JSON value, or bytes that are no JSON at all.
Garbage == [kind |-> "garbage"]
Encoded(v) == [kind |-> "json", text |-> v]
MessageValues ==
    {Garbage, Encoded(JsonNumber)}
    \cup {Encoded(JsonObject(d)) : d \in FullDocs \cup PartialDocs}

NoMsg == [kind |-> "none"]

\* ------------------------------------------------------------------- state

VARIABLES
    db,                             \* durable host rows
    session,                        \* db.session: the hosts as the unit of work sees them
    delivered,                      \* messages the input stream has delivered
    pulled,                         \* messages the loop has taken from the consumer
    pc,                             \* position of the consumer thread in _f
    msg,                            \* value of the message being processed
    data,                           \* json.loads(msg.value)
    exc,                            \* exception raised while processing msg
    system_profile_commit_count,    \* metrics counter
    system_profile_failure_count,   \* metrics counter
    handled,                        \* calls of handler
    commit_calls,                   \* calls of db.session.commit
    commits,                        \* commits that succeeded
    lookups,                        \* calls of Host.query.get
    logs,                           \* log records emitted for msg
    passed,                         \* pulled messages that pass the handler's three checks
    lastGood,                       \* per host: normalized profile of the last message handled successfully
    lastOk,                         \* per host: value of the last message handled successfully
    pre,                            \* snapshot taken when msg was pulled
    raced,                          \* an API write hit the host between the handler's lookup and its commit
    threads,                        \* the threads start_consumer has started: position, message, session
    open,                           \* application contexts that are pushed
    closed,                         \* application contexts that were popped
    g,                              \* per open context: the "producer" attribute of flask.g, where set
    producers,                      \* the producers constructed so far, each with its pending and sent messages
    got,                            \* per context: what get_producer returned, in order
    last,                           \* the last operation on a producer
    threadctx,                      \* threadctx.request_id, which the log formatter reads
    records,                        \* the log records emitted for msg, each with the request id it carries
    given,                          \* the value a codec is applied to
    result,                         \* what the codec last returned
    phase                           \* which codec operation was applied last

vars == <<db, session, delivered, pulled, pc, msg, data, exc,
          system_profile_commit_count, system_profile_failure_count,
          handled, commit_calls, commits, lookups, logs, passed,
          lastGood, lastOk, pre, raced, threads,
          open, closed, g, producers, got, last, threadctx, records,
          given, result, phase>>

\* The codecs' input and output.
pure == <<given, result, phase>>

\* What the codecs leave alone: the consumer and the producers.
process == <<db, session, delivered, pulled, pc, msg, data, exc,
             system_profile_commit_count, system_profile_failure_count,
             handled, commit_calls, commits, lookups, logs, passed,
             lastGood, lastOk, pre, raced, threads,
             open, closed, g, producers, got, last, threadctx, records>>

\* What the steps of the loop and of the API writer leave alone.
beyond == <<threads, open, closed, g, producers, got, last,
            threadctx, records, pure>>

\* What the steps of the sequential loop leave alone.
outside == <<raced, beyond>>

\* ------------------------------------------------------- event producer

\* Units of work, each with an application context of its own.
Contexts == {"c1", "c2"}

\* get_producer calls in one context, and messages the producers are given.
MaxGets == 2
MaxSends == 2

EVENT_TOPIC == "platform.inventory.events"
Topics == {EVENT_TOPIC, "other"}

\* Event payloads, as sequences of code points: "", "e-acute", "euro A".
Payloads == {<<>>, <<233>>, <<8364, 65>>}

\* One code point as UTF-8 bytes.
Utf8(cp) ==
    IF cp < 128 THEN <<cp>>
    ELSE IF cp < 2048 THEN <<192 + (cp \div 64), 128 + (cp % 64)>>
    ELSE <<224 + (cp \div 4096), 128 + ((cp \div 64) % 64), 128 + (cp % 64)>>

\* e.encode("utf-8")
RECURSIVE encode(_)
encode(e) ==
    IF e = <<>> THEN <<>> ELSE Utf8(Head(e)) \o encode(Tail(e))

\* bytes.decode("utf-8"); <<-1>> stands for UnicodeDecodeError.
Continuation(b) == b \in 128..191
RECURSIVE decode(_)
decode(b) ==
    IF b = <<>> THEN <<>>
    ELSE LET rest(n) == decode(SubSeq(b, n + 1, Len(b)))
             join(cp, n) == IF rest(n) = <<-1>> THEN <<-1>> ELSE <<cp>> \o rest(n)
         IN
         IF b[1] < 128 THEN join(b[1], 1)
         ELSE IF b[1] \in 194..223 /\ Len(b) >= 2 /\ Continuation(b[2])
              THEN join((b[1] - 192) * 64 + (b[2] - 128), 2)
         ELSE IF b[1] \in 224..239 /\ Len(b) >= 3 /\ Continuation(b[2])
                 /\ Continuation(b[3])
                 /\ (b[1] - 224) * 4096 + (b[2] - 128) * 64 >= 2048
              THEN join((b[1] - 224) * 4096 + (b[2] - 128) * 64 + (b[3] - 128), 3)
         ELSE <<-1>>

\* TestProducer.__init__
TestProducer ==
    [pending_messages |-> [x \in {} |-> <<>>],
     sent_messages |-> [x \in {} |-> <<>>]]

\* The dictionary d, with key k set to v.
Put(d, k, v) == [x \in DOMAIN d \cup {k} |-> IF x = k THEN v ELSE d[x]]

\* What send appends.
Message(value) ==
    [value |-> value, key |-> None, partition |-> None, timestamp_ms |-> None]

\* Variant: send puts the message in place of the pending ones.
sendReplacing(p, topic, value) ==
    [p EXCEPT !.pending_messages =
        Put(p.pending_messages, topic, <<Message(value)>>)]

\* TestProducer.send(topic, value=value)
send(p, topic, value) ==
    LET before == IF topic \in DOMAIN p.pending_messages
                  THEN p.pending_messages[topic] ELSE <<>>
    IN [p EXCEPT !.pending_messages =
            Put(p.pending_messages, topic, Append(before, Message(value)))]

\* The list s, last element first.
RECURSIVE Reversed(_)
Reversed(s) ==
    IF s = <<>> THEN <<>> ELSE <<s[Len(s)]>> \o Reversed(SubSeq(s, 1, Len(s) - 1))

\* Variant: one pop per topic.
flushOne(p) ==
    LET ts == DOMAIN p.pending_messages
        lastOf(s) == IF s = <<>> THEN <<>> ELSE <<s[Len(s)]>>
        start(s) == IF s = <<>> THEN <<>> ELSE SubSeq(s, 1, Len(s) - 1)
        was(tp) == IF tp \in DOMAIN p.sent_messages THEN p.sent_messages[tp] ELSE <<>>
    IN [pending_messages |-> [tp \in ts |-> start(p.pending_messages[tp])],
        sent_messages |->
            [tp \in DOMAIN p.sent_messages \cup ts |->
                IF tp \in ts THEN was(tp) \o lastOf(p.pending_messages[tp])
                             ELSE p.sent_messages[tp]]]

\* TestProducer.flush(): each topic's pending list is popped from its end
\* until it is empty, every popped message appended to the sent ones.
flush(p) ==
    LET ts == DOMAIN p.pending_messages
        was(tp) == IF tp \in DOMAIN p.sent_messages THEN p.sent_messages[tp] ELSE <<>>
    IN [pending_messages |-> [tp \in ts |-> <<>>],
        sent_messages |->
            [tp \in DOMAIN p.sent_messages \cup ts |->
                IF tp \in ts THEN was(tp) \o Reversed(p.pending_messages[tp])
                             ELSE p.sent_messages[tp]]]

\* _EventProducer.emit_event(e), on the producer it wraps.
emit_event(p, e) == flush(send(p, EVENT_TOPIC, encode(e)))

\* Variant: a new producer on every call.
get_producer_new(gc, c, fresh) ==
    [g |-> Put(gc, c, fresh), producer |-> fresh, created |-> TRUE]

\* get_producer() in context c, fresh being the instance a construction gives.
get_producer(gc, c, fresh) ==
    IF c \notin DOMAIN gc
    THEN [g |-> Put(gc, c, fresh), producer |-> fresh, created |-> TRUE]
    ELSE [g |-> gc, producer |-> gc[c], created |-> FALSE]

\* No context was pushed, no producer constructed, nothing logged.
NoProducers ==
    /\ open = {}
    /\ closed = {}
    /\ g = [x \in {} |-> 0]
    /\ producers = <<>>
    /\ got = [c \in Contexts |-> <<>>]
    /\ last = [op |-> "none", id |-> 0, e |-> <<>>]
    /\ threadctx = None
    /\ records = {}

\* ---------------------------------------------------- validation schema

\* Keys of a document whose value the schema rejects.
SchemaErrors(doc) ==
    {k \in DOMAIN doc \cap SchemaFields : doc[k] \notin FieldValues(k)}

\* The normalized document: the declared keys only.
SchemaData(doc) ==
    [k \in DOMAIN doc \cap SchemaFields |-> doc[k]]

\* Variant: the schema is loaded without strict=True, so errors do not raise
\* and .data holds the fields that validated.
LoadLenient(doc) ==
    [raised |-> NoExc,
     data |-> [k \in (DOMAIN doc \cap SchemaFields) \ SchemaErrors(doc) |-> doc[k]]]

\* Variant: the document is validated, but the raw document is used
\* instead of .data.
LoadRaw(doc) ==
    IF SchemaErrors(doc) # {}
    THEN [raised |-> "ValidationError"]
    ELSE [raised |-> NoExc, data |-> doc]

\* SystemProfileSchema(strict=True).load(doc).data: raises on any error.
LoadStrict(doc) ==
    IF SchemaErrors(doc) # {}
    THEN [raised |-> "ValidationError"]
    ELSE [raised |-> NoExc, data |-> SchemaData(doc)]

\* Variant: the update also gives the host a display name.
_update_system_profile_renaming(host, profile) ==
    [host EXCEPT !.system_profile_facts = profile, !.display_name = "renamed"]

\* Host._update_system_profile: the profile is replaced by the new document.
_update_system_profile(host, profile) ==
    [host EXCEPT !.system_profile_facts = profile]

\* ----------------------------------------------------------- persistence

\* Host.query.get(id_): the host of the session, or None.
HostFound(s, id_) == id_ \in DOMAIN s

\* Variant: commit is called before _update_system_profile, so it persists
\* the rows as they were loaded.
CommittedBeforeUpdate(loaded, staged) == loaded

\* db.session.commit() that succeeds: the rows staged in the session become
\* durable (loaded are the session's rows before the handler's update).
Committed(loaded, staged) == staged

\* Variant: the write reaches the table although commit raises.
NotRolledBack(durable, staged) == staged

\* db.session.commit() that raises: the transaction is rolled back and the
\* durable rows stay as they were.
RolledBack(durable, staged) == durable

\* The session after a commit that raised: the rollback expires its rows,
\* which are loaded again from the durable ones.
Expired(durable, staged) == durable

\* ----------------------------------------------------------- msg_handler

\* Variant: "id_ is None".
IsNone(id_) == id_ = None

\* "not id_"
Falsy(id_) == id_ \in {None, ""}

Outcome(e, s, d, calls, ok, looked, lg) ==
    [raised |-> e, session |-> s, db |-> d, commit_calls |-> calls,
     commits |-> ok, lookups |-> looked, logs |-> lg]

\* msg_handler(parsed) run on session s over durable rows d; commit_ok says
\* whether the commit, if reached, succeeds.
msg_handler(parsed, s, d, commit_ok) ==
    IF parsed.type # "object"
    THEN Outcome("TypeError", s, d, 0, 0, 0, {})
    ELSE LET m == parsed.members IN
    IF "id" \notin DOMAIN m \/ "request_id" \notin DOMAIN m
    THEN Outcome("KeyError", s, d, 0, 0, 0, {})
    ELSE IF Falsy(m.id)
    THEN Outcome(NoExc, s, d, 0, 0, 0, {"error: ID is null"})
    ELSE IF ~HostFound(s, m.id)
    THEN Outcome(NoExc, s, d, 0, 0, 1, {"error: host not found"})
    ELSE IF "system_profile" \notin DOMAIN m
    THEN Outcome("KeyError", s, d, 0, 0, 1, {"info: processing"})
    ELSE LET profile == LoadStrict(m.system_profile) IN
    IF profile.raised # NoExc
    THEN Outcome(profile.raised, s, d, 0, 0, 1, {"info: processing"})
    ELSE LET staged ==
                [s EXCEPT ![m.id] = _update_system_profile(s[m.id], profile.data)]
         IN
    IF commit_ok
    THEN Outcome(NoExc, staged, Committed(s, staged), 1, 1, 1,
                 {"info: processing"})
    ELSE Outcome("SQLAlchemyError", Expired(d, staged), RolledBack(d, staged),
                 1, 0, 1, {"info: processing"})

\* ------------------------------------------------------------ the loop

\* Variant: a body that does not parse is taken for an empty object.
loadsOrEmpty(value) ==
    IF value.kind = "json"
    THEN [raised |-> NoExc, data |-> value.text]
    ELSE [raised |-> NoExc, data |-> JsonObject([k \in {} |-> ""])]

\* json.loads(msg.value)
loads(value) ==
    IF value.kind = "json"
    THEN [raised |-> NoExc, data |-> value.text]
    ELSE [raised |-> "JSONDecodeError"]

\* Variant: "except ValueError".
ValueErrorCaught(e) == e \in {"JSONDecodeError"}

\* Variant: "except (ValueError, KeyError, TypeError)".
BuiltinErrorCaught(e) == e \in {"JSONDecodeError", "KeyError", "TypeError"}

\* "except Exception": every exception raised here derives from Exception.
ExceptionCaught(e) ==
    e \in {"JSONDecodeError", "KeyError", "TypeError", "ValidationError",
           "SQLAlchemyError", "MetricsError"}

\* ---------------------------------------------------------- message kinds

\* The message decodes to an object with id, request_id and system_profile.
WellFormed(value) ==
    /\ value.kind = "json"
    /\ value.text.type = "object"
    /\ {"id", "request_id", "system_profile"} \subseteq DOMAIN value.text.members

IdOf(value) == value.text.members.id
ProfileOf(value) == value.text.members.system_profile

EmptyId(value) == WellFormed(value) /\ IdOf(value) \in {None, ""}
HostMissing(value) ==
    WellFormed(value) /\ IdOf(value) \notin {None, ""} /\ IdOf(value) \notin Hosts
Invalid(value) ==
    /\ WellFormed(value)
    /\ IdOf(value) \in Hosts
    /\ SchemaErrors(ProfileOf(value)) # {}

\* The message passes the handler's three checks: its id is not empty, the
\* host exists and the schema accepts the profile.
Passes(value) ==
    /\ WellFormed(value)
    /\ IdOf(value) \notin {None, ""}
    /\ IdOf(value) \in Hosts
    /\ SchemaErrors(ProfileOf(value)) = {}

Snapshot ==
    [db |-> db, session |-> session, commit_calls |-> commit_calls,
     commits |-> commits, lookups |-> lookups, handled |-> handled,
     commit_count |-> system_profile_commit_count,
     failure_count |-> system_profile_failure_count, lastOk |-> lastOk]

InitialRows ==
    [h \in Hosts |->
        [system_profile_facts |-> IF h = "h1" THEN EmptyProfile ELSE [arch |-> "arm"],
         display_name |-> h]]

\* No codec was applied.
NothingGiven ==
    /\ given = None
    /\ result = None
    /\ phase = "idle"

\* The state when the thread started by start_consumer enters _f.
Entered ==
    /\ db = InitialRows
    /\ session = InitialRows
    /\ delivered = 0
    /\ pulled = 0
    /\ pc = "while"
    /\ msg = NoMsg
    /\ data = JsonNumber
    /\ exc = NoExc
    /\ system_profile_commit_count = 0
    /\ system_profile_failure_count = 0
    /\ handled = 0
    /\ commit_calls = 0
    /\ commits = 0
    /\ lookups = 0
    /\ logs = {}
    /\ passed = 0
    /\ lastGood = [h \in Hosts |-> InitialRows[h].system_profile_facts]
    /\ lastOk = [h \in Hosts |-> NoMsg]
    /\ pre = [db |-> InitialRows, session |-> InitialRows, commit_calls |-> 0,
              commits |-> 0, lookups |-> 0, handled |-> 0, commit_count |-> 0,
              failure_count |-> 0, lastOk |-> [h \in Hosts |-> NoMsg]]
    /\ raced = FALSE
    /\ threads = <<>>
    /\ NoProducers

Init == Entered /\ NothingGiven

\* A producer appends a message to the topic.
Deliver ==
    /\ delivered < MaxMsgs
    /\ delivered' = delivered + 1
    /\ UNCHANGED outside
    /\ UNCHANGED <<db, session, pulled, pc, msg, data, exc,
                   system_profile_commit_count, system_profile_failure_count,
                   handled, commit_calls, commits, lookups, logs, passed,
                   lastGood, lastOk, pre>>

\* Variant: the consumer is iterated once, without "while True".
IterateOnce ==
    /\ pc = "while"
    /\ pulled = 0
    /\ pc' = "for"
    /\ UNCHANGED outside
    /\ UNCHANGED <<db, session, delivered, pulled, msg, data, exc,
                   system_profile_commit_count, system_profile_failure_count,
                   handled, commit_calls, commits, lookups, logs, passed,
                   lastGood, lastOk, pre>>

\* "while True": (re)start iterating the consumer.
Iterate ==
    /\ pc = "while"
    /\ pc' = "for"
    /\ UNCHANGED outside
    /\ UNCHANGED <<db, session, delivered, pulled, msg, data, exc,
                   system_profile_commit_count, system_profile_failure_count,
                   handled, commit_calls, commits, lookups, logs, passed,
                   lastGood, lastOk, pre>>

\* "for msg in consumer" ends: no message is left to yield.
IterationEnds ==
    /\ pc = "for"
    /\ pulled = delivered
    /\ pc' = "while"
    /\ UNCHANGED outside
    /\ UNCHANGED <<db, session, delivered, pulled, msg, data, exc,
                   system_profile_commit_count, system_profile_failure_count,
                   handled, commit_calls, commits, lookups, logs, passed,
                   lastGood, lastOk, pre>>

\* "for msg in consumer" yields the next message.
Pull ==
    /\ pc = "for"
    /\ pulled < delivered
    /\ \E v \in MessageValues :
        /\ msg' = v
        /\ passed' = IF Passes(v) THEN passed + 1 ELSE passed
    /\ pulled' = pulled + 1
    /\ pc' = "try"
    /\ exc' = NoExc
    /\ logs' = {}
    /\ pre' = Snapshot
    /\ UNCHANGED outside
    /\ UNCHANGED <<db, session, delivered, data,
                   system_profile_commit_count, system_profile_failure_count,
                   handled, commit_calls, commits, lookups, lastGood, lastOk>>

\* data = json.loads(msg.value)
Deserialize ==
    /\ pc = "try"
    /\ LET r == loads(msg) IN
        IF r.raised = NoExc
        THEN /\ data' = r.data
             /\ pc' = "handler"
             /\ exc' = exc
        ELSE /\ data' = data
             /\ pc' = "except"
             /\ exc' = r.raised
    /\ UNCHANGED outside
    /\ UNCHANGED <<db, session, delivered, pulled, msg,
                   system_profile_commit_count, system_profile_failure_count,
                   handled, commit_calls, commits, lookups, logs, passed,
                   lastGood, lastOk, pre>>

\* handler(data)
Dispatch ==
    /\ pc = "handler"
    /\ \E commit_ok \in BOOLEAN :
        LET r == msg_handler(data, session, db, commit_ok) IN
        /\ session' = r.session
        /\ db' = r.db
        /\ commit_calls' = commit_calls + r.commit_calls
        /\ commits' = commits + r.commits
        /\ lookups' = lookups + r.lookups
        /\ logs' = logs \cup r.logs
        /\ exc' = r.raised
        /\ pc' = IF r.raised = NoExc THEN "inc" ELSE "except"
        /\ IF r.commits = 1
           THEN /\ lastGood' = [lastGood EXCEPT
                                  ![data.members.id] =
                                      SchemaData(data.members.system_profile)]
                /\ lastOk' = [lastOk EXCEPT ![data.members.id] = msg]
           ELSE UNCHANGED <<lastGood, lastOk>>
    /\ handled' = handled + 1
    /\ UNCHANGED outside
    /\ UNCHANGED <<delivered, pulled, msg, data,
                   system_profile_commit_count, system_profile_failure_count,
                   passed, pre>>

\* metrics.system_profile_commit_count.inc()
CountCommit ==
    /\ pc = "inc"
    /\ system_profile_commit_count' = system_profile_commit_count + 1
    /\ pc' = "for"
    /\ UNCHANGED outside
    /\ UNCHANGED <<db, session, delivered, pulled, msg, data, exc,
                   system_profile_failure_count,
                   handled, commit_calls, commits, lookups, logs, passed,
                   lastGood, lastOk, pre>>

\* "except Exception": log, count the failure, go on with the next message.
\* An exception the clause does not catch ends the thread.
Except ==
    /\ pc = "except"
    /\ IF ExceptionCaught(exc)
       THEN /\ logs' = logs \cup {"exception: uncaught exception in handler"}
            /\ system_profile_failure_count' = system_profile_failure_count + 1
            /\ pc' = "for"
       ELSE /\ pc' = "dead"
            /\ UNCHANGED <<logs, system_profile_failure_count>>
    /\ UNCHANGED outside
    /\ UNCHANGED <<db, session, delivered, pulled, msg, data, exc,
                   system_profile_commit_count,
                   handled, commit_calls, commits, lookups, passed,
                   lastGood, lastOk, pre>>

\* The steps of the consumer thread.
_f == Iterate \/ IterationEnds \/ Pull \/ Deserialize \/ Dispatch
        \/ CountCommit \/ Except

Next == Deliver \/ Iterate \/ IterationEnds \/ Pull \/ Deserialize
          \/ Dispatch \/ CountCommit \/ Except

Spec == Init /\ [][Next]_vars

\* The thread is scheduled as long as it can take a step.
FairSpec == Spec /\ WF_vars(_f)

\* ------------------------------------------------- metrics that raise

\* The deserialization timer raises when it is entered, or when it is left
\* after json.loads has returned: the with statement is inside the try.
DeserializeTimerFails ==
    /\ pc = "try"
    /\ \E left \in BOOLEAN :
        data' = IF left /\ loads(msg).raised = NoExc THEN loads(msg).data ELSE data
    /\ exc' = "MetricsError"
    /\ pc' = "except"
    /\ UNCHANGED outside
    /\ UNCHANGED <<db, session, delivered, pulled, msg,
                   system_profile_commit_count, system_profile_failure_count,
                   handled, commit_calls, commits, lookups, logs, passed,
                   lastGood, lastOk, pre>>

\* system_profile_commit_count.inc() raises: it is the last statement of the
\* try, so the except clause runs.
CountCommitFails ==
    /\ pc = "inc"
    /\ exc' = "MetricsError"
    /\ pc' = "except"
    /\ UNCHANGED outside
    /\ UNCHANGED <<db, session, delivered, pulled, msg, data,
                   system_profile_commit_count, system_profile_failure_count,
                   handled, commit_calls, commits, lookups, logs, passed,
                   lastGood, lastOk, pre>>

\* system_profile_failure_count.inc() raises: it runs inside the except
\* clause, so nothing catches its exception and _f ends.
CountFailureFails ==
    /\ pc = "except"
    /\ ExceptionCaught(exc)
    /\ logs' = logs \cup {"exception: uncaught exception in handler"}
    /\ exc' = "MetricsError"
    /\ pc' = "dead"
    /\ UNCHANGED outside
    /\ UNCHANGED <<db, session, delivered, pulled, msg, data,
                   system_profile_commit_count, system_profile_failure_count,
                   handled, commit_calls, commits, lookups, passed,
                   lastGood, lastOk, pre>>

MetricsNext ==
    Next \/ DeserializeTimerFails \/ CountCommitFails \/ CountFailureFails

\* The loop with a metrics collaborator whose calls may raise.
MetricsSpec == Init /\ [][MetricsNext]_vars

\* ------------------------------------- the handler beside an API writer

\* The handler reads data["id"] and finds the host.
Targets(parsed) ==
    /\ parsed.type = "object"
    /\ {"id", "request_id"} \subseteq DOMAIN parsed.members
    /\ ~Falsy(parsed.members.id)
    /\ parsed.members.id \in Hosts

\* Variant: the flush writes back every column of the loaded host.
FlushedWholeRow(durable, staged, id_) ==
    [durable EXCEPT ![id_] = staged[id_]]

\* The flush of db.session.commit(): an UPDATE of the attribute that
\* _update_system_profile changed, on the row as it is now.
Flushed(durable, staged, id_) ==
    [durable EXCEPT
        ![id_].system_profile_facts = staged[id_].system_profile_facts]

\* Messages delivered beside the API writer.
MaxRaced == 1

\* The broker delivers one more message.
RaceDeliver ==
    /\ delivered < MaxRaced
    /\ delivered' = delivered + 1
    /\ UNCHANGED outside
    /\ UNCHANGED <<db, session, pulled, pc, msg, data, exc,
                   system_profile_commit_count, system_profile_failure_count,
                   handled, commit_calls, commits, lookups, logs, passed,
                   lastGood, lastOk, pre>>

\* Values an API request gives a host.
ApiNames(h) == {h, "renamed"}
ApiProfiles(h) == {InitialRows[h].system_profile_facts, [arch |-> "arm"]}

\* An API request updates a host row and commits in its own session.
ApiWrite ==
    /\ \E h \in Hosts : \E name \in ApiNames(h), p \in ApiProfiles(h) :
        /\ db' = [db EXCEPT ![h] = [system_profile_facts |-> p,
                                    display_name |-> name]]
        /\ db' # db
        /\ raced' = (raced \/ (pc = "commit" /\ h = data.members.id))
    /\ UNCHANGED <<session, delivered, pulled, pc, msg, data, exc,
                   system_profile_commit_count, system_profile_failure_count,
                   handled, commit_calls, commits, lookups, logs, passed,
                   lastGood, lastOk, pre>>
    /\ UNCHANGED beyond

\* msg_handler up to host._update_system_profile(profile): Host.query.get
\* loads the row as it is now, the update is staged in the session.
Lookup ==
    /\ pc = "handler"
    /\ LET loaded == IF Targets(data)
                     THEN [session EXCEPT ![data.members.id] = db[data.members.id]]
                     ELSE session
           r == msg_handler(data, loaded, db, TRUE)
       IN
        /\ session' = r.session
        /\ lookups' = lookups + r.lookups
        /\ logs' = logs \cup r.logs
        /\ IF r.commit_calls = 1
           THEN /\ pc' = "commit"
                /\ exc' = exc
           ELSE /\ pc' = IF r.raised = NoExc THEN "inc" ELSE "except"
                /\ exc' = r.raised
    /\ handled' = handled + 1
    /\ raced' = FALSE
    /\ UNCHANGED <<db, delivered, pulled, msg, data,
                   system_profile_commit_count, system_profile_failure_count,
                   commit_calls, commits, passed, lastGood, lastOk, pre>>
    /\ UNCHANGED beyond

\* db.session.commit() of the staged update.
Commit ==
    /\ pc = "commit"
    /\ \E commit_ok \in BOOLEAN :
        IF commit_ok
        THEN /\ db' = Flushed(db, session, data.members.id)
             /\ session' = session
             /\ commits' = commits + 1
             /\ exc' = exc
             /\ pc' = "inc"
             /\ lastGood' = [lastGood EXCEPT
                               ![data.members.id] =
                                   SchemaData(data.members.system_profile)]
             /\ lastOk' = [lastOk EXCEPT ![data.members.id] = msg]
        ELSE /\ db' = RolledBack(db, session)
             /\ session' = Expired(db, session)
             /\ commits' = commits
             /\ exc' = "SQLAlchemyError"
             /\ pc' = "except"
             /\ UNCHANGED <<lastGood, lastOk>>
    /\ commit_calls' = commit_calls + 1
    /\ UNCHANGED <<delivered, pulled, msg, data,
                   system_profile_commit_count, system_profile_failure_count,
                   handled, lookups, logs, passed, pre, raced>>
    /\ UNCHANGED beyond

RaceNext ==
    RaceDeliver \/ Iterate \/ IterationEnds \/ Pull \/ Deserialize \/ Lookup
        \/ Commit \/ CountCommit \/ Except \/ ApiWrite

\* The loop with the handler's commit as a step of its own, beside API
\* requests that write host rows.
RaceSpec == Init /\ [][RaceNext]_vars

\* ------------------------------------------------------ emitting events

\* The state of the consumer, which the producer's operations leave alone.
consumer == <<db, session, delivered, pulled, pc, msg, data, exc,
              system_profile_commit_count, system_profile_failure_count,
              handled, commit_calls, commits, lookups, logs, passed,
              lastGood, lastOk, pre, raced, threads, threadctx, records,
              pure>>

\* Messages producer p holds, pending or sent.
Held(d, tp) == IF tp \in DOMAIN d THEN Len(d[tp]) ELSE 0
Size(p) ==
    Held(p.pending_messages, EVENT_TOPIC) + Held(p.pending_messages, "other")
        + Held(p.sent_messages, EVENT_TOPIC) + Held(p.sent_messages, "other")

\* Messages all producers hold.
RECURSIVE Stored(_)
Stored(ps) == IF ps = <<>> THEN 0 ELSE Size(Head(ps)) + Stored(Tail(ps))

\* Values given to TestProducer.send directly: bytes that are no UTF-8.
SentValues == {<<255>>}

\* flask_app.app_context() is entered: a unit of work begins.
PushContext(c) ==
    /\ c \notin open \cup closed
    /\ open' = open \cup {c}
    /\ UNCHANGED <<consumer, closed, g, producers, got, last>>

\* The application context is left: its g is discarded.
PopContext(c) ==
    /\ c \in open
    /\ open' = open \ {c}
    /\ closed' = closed \cup {c}
    /\ g' = [x \in DOMAIN g \ {c} |-> g[x]]
    /\ UNCHANGED <<consumer, producers, got, last>>

\* get_producer() in context c.
GetProducer(c) ==
    /\ c \in open
    /\ Len(got[c]) < MaxGets
    /\ LET r == get_producer(g, c, Len(producers) + 1) IN
        /\ g' = r.g
        /\ producers' = IF r.created THEN Append(producers, TestProducer)
                                     ELSE producers
        /\ got' = [got EXCEPT ![c] = Append(@, r.producer)]
        /\ last' = [op |-> "get", id |-> r.producer, e |-> <<>>]
    /\ UNCHANGED <<consumer, open, closed>>

\* g.producer.emit_event(e) in context c.
Emit(c, e) ==
    /\ c \in open \cap DOMAIN g
    /\ Stored(producers) < MaxSends
    /\ producers' = [producers EXCEPT ![g[c]] = emit_event(@, e)]
    /\ last' = [op |-> "emit", id |-> g[c], e |-> e]
    /\ UNCHANGED <<consumer, open, closed, g, got>>

\* send(topic, value=value) on the wrapped producer, without a flush.
Send(id, topic, value) ==
    /\ Stored(producers) < MaxSends
    /\ producers' = [producers EXCEPT ![id] = send(@, topic, value)]
    /\ last' = [op |-> "send", id |-> id, e |-> <<>>]
    /\ UNCHANGED <<consumer, open, closed, g, got>>

\* flush() on the wrapped producer.
Flush(id) ==
    /\ producers' = [producers EXCEPT ![id] = flush(@)]
    /\ last' = [op |-> "flush", id |-> id, e |-> <<>>]
    /\ UNCHANGED <<consumer, open, closed, g, got>>

EmitNext ==
    \/ \E c \in Contexts : PushContext(c)
    \/ \E c \in Contexts : PopContext(c)
    \/ \E c \in Contexts : GetProducer(c)
    \/ \E c \in Contexts, e \in Payloads : Emit(c, e)
    \/ \E id \in DOMAIN producers, tp \in Topics, v \in SentValues :
            Send(id, tp, v)
    \/ \E id \in DOMAIN producers : Flush(id)

\* Units of work that get the producer and emit events.
EmitSpec == Init /\ [][EmitNext]_vars

\* ------------------------------------------------- the logging context

\* Messages of two requests.
RequestIds == {"r1", "r2"}
LogValues ==
    {Garbage}
    \cup {Encoded(JsonObject([id |-> i, request_id |-> r,
                              system_profile |-> ProfileArch])) :
            i \in {"h1", "", MissingHost}, r \in RequestIds}
    \cup {Encoded(JsonObject([request_id |-> "r2", system_profile |-> ProfileArch])),
          Encoded(JsonObject([id |-> "h1", system_profile |-> ProfileArch]))}

\* What the loop and the handler's statements leave alone.
aside == <<raced, threads, open, closed, g, producers, got, last, pure>>

\* A log record: who emitted it, its text, the request id the formatter adds.
Record(by, text) == [by |-> by, text |-> text, request_id |-> threadctx]

\* "for msg in consumer", the stream carrying messages of two requests.
LogPull ==
    /\ pc = "for"
    /\ pulled < delivered
    /\ \E v \in LogValues : msg' = v
    /\ pulled' = pulled + 1
    /\ pc' = "try"
    /\ exc' = NoExc
    /\ logs' = {}
    /\ records' = {}
    /\ pre' = Snapshot
    /\ UNCHANGED <<db, session, delivered, data, threadctx,
                   system_profile_commit_count, system_profile_failure_count,
                   handled, commit_calls, commits, lookups, passed,
                   lastGood, lastOk, aside>>

\* handler(data): msg_handler is entered.
Enter ==
    /\ pc = "handler"
    /\ pc' = "h67"
    /\ handled' = handled + 1
    /\ UNCHANGED <<db, session, delivered, pulled, msg, data, exc, threadctx,
                   records, system_profile_commit_count,
                   system_profile_failure_count, commit_calls, commits,
                   lookups, logs, passed, lastGood, lastOk, pre, aside>>

\* id_ = parsed["id"]
ReadId ==
    /\ pc = "h67"
    /\ IF data.type # "object"
       THEN exc' = "TypeError" /\ pc' = "except"
       ELSE IF "id" \notin DOMAIN data.members
       THEN exc' = "KeyError" /\ pc' = "except"
       ELSE exc' = exc /\ pc' = "h68"
    /\ UNCHANGED <<db, session, delivered, pulled, msg, data, threadctx,
                   records, system_profile_commit_count,
                   system_profile_failure_count, handled, commit_calls,
                   commits, lookups, logs, passed, lastGood, lastOk, pre,
                   aside>>

\* threadctx.request_id = parsed["request_id"]
SetRequestId ==
    /\ pc = "h68"
    /\ IF "request_id" \notin DOMAIN data.members
       THEN exc' = "KeyError" /\ pc' = "except" /\ threadctx' = threadctx
       ELSE exc' = exc /\ pc' = "h69"
            /\ threadctx' = data.members.request_id
    /\ UNCHANGED <<db, session, delivered, pulled, msg, data,
                   records, system_profile_commit_count,
                   system_profile_failure_count, handled, commit_calls,
                   commits, lookups, logs, passed, lastGood, lastOk, pre,
                   aside>>

\* The handler from "if not id_" to its return, its log records included.
Rest ==
    /\ pc = "h69"
    /\ \E commit_ok \in BOOLEAN :
        LET r == msg_handler(data, session, db, commit_ok) IN
        /\ session' = r.session
        /\ db' = r.db
        /\ commit_calls' = commit_calls + r.commit_calls
        /\ commits' = commits + r.commits
        /\ lookups' = lookups + r.lookups
        /\ logs' = logs \cup r.logs
        /\ records' = records \cup {Record("msg_handler", l) : l \in r.logs}
        /\ exc' = r.raised
        /\ pc' = IF r.raised = NoExc THEN "inc" ELSE "except"
        /\ IF r.commits = 1
           THEN /\ lastGood' = [lastGood EXCEPT
                                  ![data.members.id] =
                                      SchemaData(data.members.system_profile)]
                /\ lastOk' = [lastOk EXCEPT ![data.members.id] = msg]
           ELSE UNCHANGED <<lastGood, lastOk>>
    /\ UNCHANGED <<delivered, pulled, msg, data, threadctx, handled,
                   system_profile_commit_count, system_profile_failure_count,
                   passed, pre, aside>>

\* "except Exception", with the record logger.exception emits.
LogExcept ==
    /\ pc = "except"
    /\ IF ExceptionCaught(exc)
       THEN /\ logs' = logs \cup {"exception: uncaught exception in handler"}
            /\ records' = records \cup
                  {Record("_f", "exception: uncaught exception in handler")}
            /\ system_profile_failure_count' = system_profile_failure_count + 1
            /\ pc' = "for"
       ELSE /\ pc' = "dead"
            /\ UNCHANGED <<logs, records, system_profile_failure_count>>
    /\ UNCHANGED <<db, session, delivered, pulled, msg, data, exc, threadctx,
                   system_profile_commit_count,
                   handled, commit_calls, commits, lookups, passed,
                   lastGood, lastOk, pre, aside>>

LogNext ==
    Deliver \/ Iterate \/ IterationEnds \/ LogPull \/ Deserialize \/ Enter
        \/ ReadId \/ SetRequestId \/ Rest \/ CountCommit \/ LogExcept

\* The loop, the handler taken statement by statement up to its first test.
LogSpec == Init /\ [][LogNext]_vars

\* msg_handler is being executed.
InHandler == pc \in {"h67", "h68", "h69"}

\* The message being handled has a request id.
HasRequestId ==
    /\ msg.kind = "json"
    /\ msg.text.type = "object"
    /\ "request_id" \in DOMAIN msg.text.members

\* ------------------------------------------------------------ tag codec

\* Longest namespace, key and value of a tag.
MaxNamespace == 1
MaxKey == 1
MaxValue == 3

\* Characters of a tag's parts: four the string format reserves, two it
\* does not, which are hexadecimal digits as well.
Escapes ==
    [c \in {"/", "=", "%", "\\"} |->
        CASE c = "/" -> <<"2", "F">>
          [] c = "=" -> <<"3", "D">>
          [] c = "%" -> <<"2", "5">>
          [] c = "\\" -> <<"5", "C">>]
Reserved == DOMAIN Escapes
Chars == Reserved \cup {"2", "F"}

\* The strings of at most n characters, none empty.
Texts(n) == UNION {[1..k -> Chars] : k \in 1..n}

\* A part of a tag that is absent, and one that is present.
Absent == [present |-> FALSE, text |-> <<>>]
Present(s) == [present |-> TRUE, text |-> s]

\* Tag(namespace, key, value): namespace and value are optional.
Tags ==
    [namespace : {Absent} \cup {Present(s) : s \in Texts(MaxNamespace)},
     key : Texts(MaxKey),
     value : {Absent} \cup {Present(s) : s \in Texts(MaxValue)}]

\* Variant: the percent-encoding that leaves "/" as it is.
RECURSIVE quoteSafeSlash(_)
quoteSafeSlash(s) ==
    IF s = <<>> THEN <<>>
    ELSE (IF Head(s) \in Reserved \ {"/"}
          THEN <<"%">> \o Escapes[Head(s)] ELSE <<Head(s)>>)
         \o quoteSafeSlash(Tail(s))

\* Percent-encoding of one part: every reserved character becomes "%XX".
RECURSIVE quote(_)
quote(s) ==
    IF s = <<>> THEN <<>>
    ELSE (IF Head(s) \in Reserved
          THEN <<"%">> \o Escapes[Head(s)] ELSE <<Head(s)>>)
         \o quote(Tail(s))

\* Percent-decoding of one part: "%XX" becomes the character it stands for,
\* anything else stays.
RECURSIVE unquote(_)
unquote(s) ==
    IF s = <<>> THEN <<>>
    ELSE IF /\ Head(s) = "%"
            /\ Len(s) >= 3
            /\ \E c \in Reserved : Escapes[c] = <<s[2], s[3]>>
         THEN <<CHOOSE c \in Reserved : Escapes[c] = <<s[2], s[3]>>>>
              \o unquote(SubSeq(s, 4, Len(s)))
         ELSE <<Head(s)>> \o unquote(Tail(s))

\* Tag.to_string(): namespace/key=value, the namespace with its "/" and the
\* value with its "=" left out when absent.
to_string(tag) ==
    (IF tag.namespace.present THEN quote(tag.namespace.text) \o <<"/">> ELSE <<>>)
        \o quote(tag.key)
        \o (IF tag.value.present THEN <<"=">> \o quote(tag.value.text) ELSE <<>>)

\* Where c first occurs in s; 0 when it does not.
First(s, c) ==
    IF \E i \in DOMAIN s : s[i] = c
    THEN CHOOSE i \in DOMAIN s : s[i] = c /\ \A j \in 1..(i - 1) : s[j] # c
    ELSE 0

ParseError == [error |-> "ParseError"]

\* Tag.from_string(s): the parts are told apart by the first "/" and the
\* first "=" after it, then each is decoded.
from_string(s) ==
    LET slash == First(s, "/")
        tail == SubSeq(s, slash + 1, Len(s))
        eq == First(tail, "=")
        key == IF eq = 0 THEN tail ELSE SubSeq(tail, 1, eq - 1)
    IN IF key = <<>> THEN ParseError
       ELSE [namespace |-> IF slash = 0 THEN Absent
                           ELSE Present(unquote(SubSeq(s, 1, slash - 1))),
             key |-> unquote(key),
             value |-> IF eq = 0 THEN Absent
                       ELSE Present(unquote(SubSeq(tail, eq + 1, Len(tail))))]

\* A tag is given.
TagInit ==
    /\ Entered
    /\ given \in Tags
    /\ result = None
    /\ phase = "given"

\* tag.to_string()
WriteTag ==
    /\ phase = "given"
    /\ result' = to_string(given)
    /\ phase' = "string"
    /\ UNCHANGED <<process, given>>

\* Tag().from_string(string_tag), of the string to_string returned
ReadTag ==
    /\ phase = "string"
    /\ result' = from_string(result)
    /\ phase' = "tag"
    /\ UNCHANGED <<process, given>>

TagNext == WriteTag \/ ReadTag

\* A tag written as a string and read back.
TagSpec == TagInit /\ [][TagNext]_vars

\* ----------------------------------------------------- facts normalizer

\* Longest list given to _deserialize_facts.
MaxItems == 3

Namespaces == {"n1", "n2"}
FactKeys == {"a", "b"}
FactValues == {"1", "2"}

\* JSON values: null, an object, a list.
Null == [type |-> "null"]
Dict(m) == [type |-> "dict", items |-> m]
List(s) == [type |-> "list", items |-> s]

\* The facts of one namespace: null, or a mapping from keys to values.
FactDicts == {Dict(m) : m \in UNION {[ks -> FactValues] : ks \in SUBSET FactKeys}}
Facts == {Null} \cup FactDicts

\* Items of a facts list: with both keys, and with one of them missing.
GoodItems == [namespace : Namespaces, facts : Facts]
BadItems ==
    {[namespace |-> "n1"], [facts |-> Dict([k \in {"a"} |-> "1"])],
     [namespace |-> "n1", fact |-> Dict([k \in {"a"} |-> "1"])]}
FactsLists ==
    {Null} \cup
    {List(s) : s \in UNION {[1..n -> GoodItems \cup BadItems] : n \in 0..MaxItems}}

\* Facts of a host: a mapping from namespaces to their facts.
FactsMappings == UNION {[ns -> Facts] : ns \in SUBSET Namespaces}

\* The orders a dictionary with these keys can iterate in.
Orders(keys) ==
    {s \in [1..Cardinality(keys) -> keys] : \A k \in keys : \E i \in DOMAIN s : s[i] = k}

\* The keys of a namespace's facts; null has none.
KeysOf(f) == IF f.type = "dict" THEN DOMAIN f.items ELSE {}

\* Variant: a later occurrence replaces the namespace's facts.
replace(old, new) == new

\* dict.update on the facts of a namespace seen before: keys of the later
\* occurrence are added, and overwrite. Null facts count as no keys.
update(old, new) ==
    Dict([k \in KeysOf(old) \cup KeysOf(new) |->
            IF k \in KeysOf(new) THEN new.items[k] ELSE old.items[k]])

\* Variant: an item that lacks a key is passed over.
RECURSIVE FoldFactsSkipping(_, _)
FoldFactsSkipping(items, acc) ==
    IF items = <<>> THEN [raised |-> NoExc, value |-> acc]
    ELSE LET item == Head(items) IN
         IF ~({"namespace", "facts"} \subseteq DOMAIN item)
         THEN FoldFactsSkipping(Tail(items), acc)
         ELSE FoldFactsSkipping(Tail(items),
                IF item.namespace \in DOMAIN acc
                THEN Put(acc, item.namespace, update(acc[item.namespace], item.facts))
                ELSE Put(acc, item.namespace, item.facts))

\* The loop of _deserialize_facts over the items not yet seen.
RECURSIVE FoldFacts(_, _)
FoldFacts(items, acc) ==
    IF items = <<>> THEN [raised |-> NoExc, value |-> acc]
    ELSE LET item == Head(items) IN
         IF ~({"namespace", "facts"} \subseteq DOMAIN item)
         THEN [raised |-> "InputFormatException", value |-> <<>>]
         ELSE FoldFacts(Tail(items),
                IF item.namespace \in DOMAIN acc
                THEN Put(acc, item.namespace, update(acc[item.namespace], item.facts))
                ELSE Put(acc, item.namespace, item.facts))

\* _deserialize_facts(data)
_deserialize_facts(input) ==
    FoldFacts(IF input.type = "null" THEN <<>> ELSE input.items, <<>>)

\* Variant: namespaces without facts are left out.
_serialize_facts_nonempty(facts, order) ==
    List(SelectSeq([i \in DOMAIN order |->
                       [namespace |-> order[i], facts |-> facts[order[i]]]],
                   LAMBDA item : KeysOf(item.facts) # {}))

\* _serialize_facts(facts), the dictionary iterating in the given order.
_serialize_facts(facts, order) ==
    List([i \in DOMAIN order |->
            [namespace |-> order[i],
             facts |-> IF KeysOf(facts[order[i]]) = {}
                       THEN Dict(<<>>) ELSE facts[order[i]]]])

\* A facts list, or the facts of a host, is given.
FactsInit ==
    /\ Entered
    /\ \/ given \in FactsLists /\ phase = "list"
       \/ given \in FactsMappings /\ phase = "facts"
    /\ result = Null

\* _deserialize_facts(input)
DeserializeFacts ==
    /\ phase = "list"
    /\ result' = _deserialize_facts(given)
    /\ phase' = "deserialized"
    /\ UNCHANGED <<process, given>>

\* _serialize_facts(facts)
SerializeFacts ==
    /\ phase = "facts"
    /\ \E order \in Orders(DOMAIN given) :
        result' = _serialize_facts(given, order)
    /\ phase' = "serialized"
    /\ UNCHANGED <<process, given>>

\* _deserialize_facts(_serialize_facts(facts))
DeserializeBack ==
    /\ phase = "serialized"
    /\ result' = _deserialize_facts(result)
    /\ phase' = "round trip"
    /\ UNCHANGED <<process, given>>

FactsNext == DeserializeFacts \/ SerializeFacts \/ DeserializeBack

\* Facts read from a list, and written to a list and read back.
FactsSpec == FactsInit /\ [][FactsNext]_vars

\* The items of the given list that are of one namespace.
Occurrences(ns) ==
    {i \in DOMAIN given.items : given.items[i].namespace = ns}

\* The given list has items, each with its namespace and a mapping of facts.
AllMappings ==
    /\ given.type = "list"
    /\ \A i \in DOMAIN given.items :
          /\ given.items[i] \in GoodItems
          /\ given.items[i].facts.type = "dict"

\* An item of the given list lacks the namespace key or the facts key.
SomeItemBad ==
    /\ given.type = "list"
    /\ \E i \in DOMAIN given.items : given.items[i] \in BadItems

\* Null facts of a namespace meet other facts of it in the given list.
NullMerged ==
    /\ given.type = "list"
    /\ \E i, j \in DOMAIN given.items :
          /\ i < j
          /\ given.items[i] \in GoodItems
          /\ given.items[j] \in GoodItems
          /\ given.items[i].namespace = given.items[j].namespace
          /\ Null \in {given.items[i].facts, given.items[j].facts}

\* ------------------------------------------------------ canonical facts

\* Keys a payload has, the payload with all nine fields aside.
MaxFields == 2

\* The canonical fact fields.
CANONICAL_FACTS_FIELDS ==
    {"insights_id", "rhel_machine_id", "subscription_manager_id",
     "satellite_id", "bios_uuid", "ip_addresses", "fqdn", "mac_addresses",
     "external_id"}

\* A JSON string.
Str(s) == [type |-> "str", text |-> s]

\* Values of a payload's fields: null, "", a string, [], a list.
FieldInputs ==
    {Null, Str(""), Str("some fqdn"), List(<<>>), List(<<"10.10.0.1">>)}

\* bool(value): null, "" and an empty sequence are false.
Truthy(v) ==
    \/ v.type = "str" /\ v.text # ""
    \/ v.type = "list" /\ v.items # <<>>

\* Payloads: a few keys with any value, or all nine fields and one more key.
PayloadKeys == CANONICAL_FACTS_FIELDS \cup {"unknown"}
FullPayload ==
    [k \in PayloadKeys |->
        IF k \in {"ip_addresses", "mac_addresses"}
        THEN List(<<"10.10.0.1">>) ELSE Str("some fqdn")]
CanonicalPayloads ==
    {FullPayload} \cup
    UNION {[ks -> FieldInputs] :
            ks \in {s \in SUBSET PayloadKeys : Cardinality(s) <= MaxFields}}

\* Variant: a field is kept unless it is null.
_deserialize_canonical_facts_not_null(input) ==
    [f \in {k \in CANONICAL_FACTS_FIELDS \cap DOMAIN input : input[k] # Null}
        |-> input[f]]

\* _deserialize_canonical_facts(data)
_deserialize_canonical_facts(input) ==
    [f \in {k \in CANONICAL_FACTS_FIELDS \cap DOMAIN input : Truthy(input[k])}
        |-> input[f]]

\* Variant: absent fields are left out.
serialize_canonical_facts_present(canonical_facts) ==
    [f \in CANONICAL_FACTS_FIELDS \cap DOMAIN canonical_facts |->
        canonical_facts[f]]

\* serialize_canonical_facts(canonical_facts)
serialize_canonical_facts(canonical_facts) ==
    [f \in CANONICAL_FACTS_FIELDS |->
        IF f \in DOMAIN canonical_facts THEN canonical_facts[f] ELSE Null]

\* A payload is given.
CanonicalInit ==
    /\ Entered
    /\ given \in CanonicalPayloads
    /\ phase = "payload"
    /\ result = Null

\* _deserialize_canonical_facts(input)
ExtractCanonical ==
    /\ phase = "payload"
    /\ result' = _deserialize_canonical_facts(given)
    /\ phase' = "extracted"
    /\ UNCHANGED <<process, given>>

\* serialize_canonical_facts(canonical_facts)
SerializeCanonical ==
    /\ phase = "payload"
    /\ result' = serialize_canonical_facts(given)
    /\ phase' = "with defaults"
    /\ UNCHANGED <<process, given>>

CanonicalNext == ExtractCanonical \/ SerializeCanonical

\* Canonical facts taken from a payload, and written out with defaults.
CanonicalSpec == CanonicalInit /\ [][CanonicalNext]_vars

\* -------------------------------------------------------- nested tags

\* Longest sequence of tags folded into one nested mapping.
MaxTags == 3

\* Tags of two namespaces (one of them none), two keys and a few values.
NestedTags ==
    [namespace : {Absent, Present(<<"2">>)},
     key : {<<"2">>, <<"F">>},
     value : {Absent, Present(<<"2">>), Present(<<"F">>)}]
TagLists == UNION {[1..n -> NestedTags] : n \in 0..MaxTags}

\* Variant: a later tag's value replaces the values its key has.
RECURSIVE FoldTagsOverwriting(_, _)
FoldTagsOverwriting(tags, nested) ==
    IF tags = <<>> THEN nested
    ELSE LET tag == Head(tags)
             keys == IF tag.namespace \in DOMAIN nested
                     THEN nested[tag.namespace] ELSE <<>>
         IN FoldTagsOverwriting(Tail(tags),
                Put(nested, tag.namespace,
                    Put(keys, tag.key,
                        IF tag.value.present THEN <<tag.value.text>> ELSE <<>>)))

\* The loop of Tag.create_nested_from_tags over the tags not yet seen: the
\* namespace and the key get an entry, the value, if any, is appended.
RECURSIVE FoldTags(_, _)
FoldTags(tags, nested) ==
    IF tags = <<>> THEN nested
    ELSE LET tag == Head(tags)
             keys == IF tag.namespace \in DOMAIN nested
                     THEN nested[tag.namespace] ELSE <<>>
             values == IF tag.key \in DOMAIN keys THEN keys[tag.key] ELSE <<>>
         IN FoldTags(Tail(tags),
                Put(nested, tag.namespace,
                    Put(keys, tag.key,
                        IF tag.value.present
                        THEN Append(values, tag.value.text) ELSE values)))

\* Tag.create_nested_from_tags(tags)
create_nested_from_tags(tags) == FoldTags(tags, <<>>)

\* A sequence of tags is given.
NestedInit ==
    /\ Entered
    /\ given \in TagLists
    /\ phase = "tags"
    /\ result = Null

\* Tag.create_nested_from_tags(tags)
CreateNested ==
    /\ phase = "tags"
    /\ result' = create_nested_from_tags(given)
    /\ phase' = "nested"
    /\ UNCHANGED <<process, given>>

NestedNext == CreateNested

\* Sequences of tags folded into nested mappings.
NestedSpec == NestedInit /\ [][NestedNext]_vars

\* ---------------------------------------------------- deserialize_host

\* A key a payload does not have.
Missing == [type |-> "absent"]

\* The values each key of a raw payload is given, Missing for no key.
HostOptions ==
    [account : {Missing, Str(""), Str("someacct")},
     fqdn : {Missing, Null, Str(""), Str("some fqdn")},
     ip_addresses : {Missing, List(<<>>), List(<<"10.10.0.1">>)},
     display_name : {Missing, Null, Str(""), Str("some display name")},
     ansible_host : {Missing, Null, Str(""), Str("some ansible host")},
     system_profile : {Missing, Null, Dict(<<>>),
                       Dict([k \in {"number_of_cpus"} |-> "1"])},
     facts : {Missing,
              List(<<[namespace |-> "n1", facts |-> Dict([k \in {"a"} |-> "1"])]>>),
              Dict([k \in {"n1"} |-> Dict([k2 \in {"a"} |-> "1"])])},
     tags : {Missing,
             List(<<[namespace |-> Present(<<"2">>), key |-> <<"F">>,
                     value |-> Present(<<"2">>)]>>),
             Dict([k \in {"NS1"} |-> Dict([k2 \in {"key"} |-> "value1"])])}]
HostKeys ==
    {"account", "fqdn", "ip_addresses", "display_name", "ansible_host",
     "system_profile", "facts", "tags"}

\* The payload of the keys that are given a value.
Payload(o) == [k \in {x \in HostKeys : o[x] # Missing} |-> o[k]]
HostPayloads == {Payload(o) : o \in HostOptions}

\* What HostSchema rejects: no account or an empty one, an fqdn that is null
\* or empty, facts or tags that are not a list.
HostSchemaErrors(input) ==
    {k \in {"account"} : k \notin DOMAIN input \/ input[k] = Str("")}
    \cup {k \in {"fqdn"} \cap DOMAIN input : input[k] \in {Null, Str("")}}
    \cup {k \in {"facts", "tags"} \cap DOMAIN input : input[k].type # "list"}

\* HostSchema(strict=True).load(data): the data, or ValidationError.
HostSchemaLoad(input) ==
    IF HostSchemaErrors(input) # {}
    THEN [raised |-> "ValidationError", data |-> <<>>]
    ELSE [raised |-> NoExc, data |-> input]

\* dict.get(key): the value, null without the key.
Get(d, k) == IF k \in DOMAIN d THEN d[k] ELSE Null

\* Variant: only null gives way to the default.
OrElseIfNull(v, default) == IF v = Null THEN default ELSE v

\* value or default: null, "", [] and {} give way to the default.
OrElse(v, default) ==
    IF v \in {Null, Str(""), List(<<>>), Dict(<<>>)} THEN default ELSE v

\* _deserialize_tags(tags): no tags give {}, tags their nested mapping.
_deserialize_tags(input) ==
    IF input = Null THEN <<>> ELSE create_nested_from_tags(input.items)

\* Variant: a host is made of any canonical facts.
HostUnchecked(canonical_facts, display_name, ansible_host, account, facts, tags, system_profile_facts) ==
    [raised |-> NoExc,
     host |-> [canonical_facts |-> canonical_facts,
               display_name |-> display_name,
               ansible_host |-> ansible_host, account |-> account,
               facts |-> facts, tags |-> tags,
               system_profile_facts |-> system_profile_facts]]

\* Host(canonical_facts, display_name, ...): without canonical facts no host
\* is made.
Host(canonical_facts, display_name, ansible_host, account, facts, tags, system_profile_facts) ==
    IF DOMAIN canonical_facts = {}
    THEN [raised |-> "InventoryException", host |-> Null]
    ELSE [raised |-> NoExc,
          host |-> [canonical_facts |-> canonical_facts,
                    display_name |-> display_name,
                    ansible_host |-> ansible_host, account |-> account,
                    facts |-> facts, tags |-> tags,
                    system_profile_facts |-> system_profile_facts]]

\* What deserialize_host does with the validated data.
FromValidated(validated, before) ==
    LET canonical_facts == _deserialize_canonical_facts(validated)
        facts == _deserialize_facts(Get(validated, "facts"))
        tags == _deserialize_tags(Get(validated, "tags"))
        made == Host(canonical_facts,
                     OrElse(Get(validated, "display_name"), Null),
                     Get(validated, "ansible_host"),
                     Get(validated, "account"),
                     facts.value, tags,
                     OrElse(Get(validated, "system_profile"), Dict(<<>>)))
    IN IF facts.raised # NoExc
       THEN [raised |-> facts.raised, host |-> Null,
             calls |-> before \o <<"_deserialize_canonical_facts",
                                   "_deserialize_facts">>]
       ELSE [raised |-> made.raised, host |-> made.host,
             calls |-> before \o <<"_deserialize_canonical_facts",
                                   "_deserialize_facts", "_deserialize_tags",
                                   "Host">>]

\* Variant: the schema is asked after the host was put together.
deserialize_host_validating_last(input) ==
    LET loaded == HostSchemaLoad(input)
        made == FromValidated([k \in {x \in DOMAIN input :
                                        x \notin {"facts", "tags"}} |-> input[k]],
                              <<>>)
    IN IF loaded.raised # NoExc
       THEN [raised |-> "ValidationException", host |-> Null,
             calls |-> made.calls \o <<"HostSchema.load">>]
       ELSE FromValidated(loaded.data, <<"HostSchema.load">>)

\* deserialize_host(raw_data): the schema first, then the parts, then Host.
deserialize_host(input) ==
    LET loaded == HostSchemaLoad(input)
    IN IF loaded.raised # NoExc
       THEN [raised |-> "ValidationException", host |-> Null,
             calls |-> <<"HostSchema.load">>]
       ELSE FromValidated(loaded.data, <<"HostSchema.load">>)

\* A raw payload is given.
HostInit ==
    /\ Entered
    /\ given \in HostPayloads
    /\ phase = "raw"
    /\ result = Null

\* deserialize_host(raw_data)
DeserializeHost ==
    /\ phase = "raw"
    /\ result' = deserialize_host(given)
    /\ phase' = "host"
    /\ UNCHANGED <<process, given>>

HostNext == DeserializeHost

\* Raw payloads made into hosts.
HostSpec == HostInit /\ [][HostNext]_vars

\* ----------------------------------------------------------- pagination

\* Largest page, page size and number of hits of a request.
MaxPage == 5
MaxPerPage == 4
MaxTotal == 6

\* Variant: an empty result set is treated like any other.
check_pagination_any_total(offset, total) ==
    IF offset >= total THEN "404" ELSE NoExc

\* check_pagination(offset, total): abort(404) when there are hits and the
\* offset is past them.
check_pagination(offset, total) ==
    IF total # 0 /\ offset >= total THEN "404" ELSE NoExc

\* pagination_params(page, per_page)
pagination_params(page, per_page) ==
    [limit |-> per_page, offset |-> (page - 1) * per_page]

\* A request for a page of a result set with some number of hits.
PageInit ==
    /\ Entered
    /\ given \in [page : 1..MaxPage, per_page : 1..MaxPerPage, total : 0..MaxTotal]
    /\ phase = "request"
    /\ result = Null

\* limit, offset = pagination_params(page, per_page)
PaginationParams ==
    /\ phase = "request"
    /\ result' = pagination_params(given.page, given.per_page)
    /\ phase' = "params"
    /\ UNCHANGED <<process, given>>

\* check_pagination(offset, total)
CheckPagination ==
    /\ phase = "params"
    /\ result' = [limit |-> result.limit, offset |-> result.offset,
                  aborted |-> check_pagination(result.offset, given.total)]
    /\ phase' = "checked"
    /\ UNCHANGED <<process, given>>

PageNext == PaginationParams \/ CheckPagination

\* Requests for pages, checked against the number of hits.
PageSpec == PageInit /\ [][PageNext]_vars

\* ------------------------------------------------------- test fixtures

\* Most keys an override has.
MaxOverrides == 2

\* An int.
Num(n) == [type |-> "int", n |-> n]

\* The order in which a dict gives its keys: the order of their insertion,
\* here the order of this sequence. "#0", "#1", "#2" stand for the int keys
\* 0, 1, 2, which are no string keys.
KeyOrder == <<"a", "b", "c", "x", "y", "z", "#0", "#1", "#2">>

\* One key with its value, two keys with their values.
One(k, v) == [j \in {k} |-> v]
Two(k1, v1, k2, v2) == [j \in {k1, k2} |-> IF j = k1 THEN v1 ELSE v2]

\* Values of an original: an int, a string, a list, dicts of one and two
\* keys, a dict with a list and dicts within a dict.
OriginalValues ==
    {Num(1), Str("1"), List(<<Num(1), Num(2)>>),
     Dict(One("x", Num(1))),
     Dict(Two("x", Num(1), "y", Str("1"))),
     Dict(One("x", List(<<Num(1), Num(2)>>))),
     Dict(One("x", Dict(Two("y", Num(1), "z", Str("1")))))}

\* Values of an override: of the same and of another type, with keys the
\* original has and keys it lacks, with list indexes inside and outside.
OverrideValues ==
    {Num(2), Str("2"), List(<<Num(3)>>),
     Dict(One("#0", Num(3))), Dict(One("#2", Num(3))),
     Dict(One("x", Num(2))), Dict(One("x", Str("2"))),
     Dict(One("z", Num(2))),
     Dict(One("x", Dict(One("y", Num(2))))),
     Dict(One("x", Dict(One("a", Num(2)))))}

Originals ==
    {Dict(m) : m \in UNION {[ks -> OriginalValues] :
                              ks \in (SUBSET {"a", "b"}) \ {{}}}}
Overrides ==
    {Dict(m) : m \in UNION {[ks -> OverrideValues] :
                              ks \in {s \in SUBSET {"a", "b", "c"} :
                                        Cardinality(s) <= MaxOverrides}}}

\* The keys of a dict in the order in which it gives them.
Keys(d) == SelectSeq(KeyOrder, LAMBDA k : k \in DOMAIN d.items)

\* Variant: {**original, **override}, the dicts inside replaced whole.
_merge_dict_shallow(original, override) ==
    [raised |-> NoExc,
     value |-> Dict([k \in DOMAIN original.items \cup DOMAIN override.items |->
                        IF k \in DOMAIN override.items
                        THEN override.items[k] ELSE original.items[k]])]

RECURSIVE _merge_dict(_, _)
RECURSIVE MergeKeys(_, _, _, _)
RECURSIVE MergeKeysUnchecked(_, _, _, _)

\* Variant: the types of the two values are not compared.
MergeKeysUnchecked(original, override, keys, merged) ==
    IF keys = <<>> THEN [raised |-> NoExc, value |-> Dict(merged)]
    ELSE LET key == Head(keys)
             original_value == original.items[key]
         IN IF key \notin DOMAIN override.items
            THEN MergeKeysUnchecked(original, override, Tail(keys),
                                    Put(merged, key, original_value))
            ELSE LET override_value == override.items[key] IN
                 IF original_value.type = "dict" /\ override_value.type = "dict"
                 THEN LET inner == _merge_dict(original_value, override_value) IN
                      IF inner.raised # NoExc THEN inner
                      ELSE MergeKeysUnchecked(original, override, Tail(keys),
                                              Put(merged, key, inner.value))
                 ELSE MergeKeysUnchecked(original, override, Tail(keys),
                                         Put(merged, key, override_value))

\* The loop of _merge_dict over the keys of original not yet seen.
MergeKeys(original, override, keys, merged) ==
    IF keys = <<>> THEN [raised |-> NoExc, value |-> Dict(merged)]
    ELSE LET key == Head(keys)
             original_value == original.items[key]
         IN IF key \notin DOMAIN override.items
            THEN MergeKeys(original, override, Tail(keys),
                           Put(merged, key, original_value))
            ELSE LET override_value == override.items[key] IN
                 IF override_value.type # original_value.type
                 THEN [raised |-> "TypeError", value |-> Null]
                 ELSE IF original_value.type = "dict"
                 THEN LET inner == _merge_dict(original_value, override_value) IN
                      IF inner.raised # NoExc THEN inner
                      ELSE MergeKeys(original, override, Tail(keys),
                                     Put(merged, key, inner.value))
                 ELSE MergeKeys(original, override, Tail(keys),
                                Put(merged, key, override_value))

\* _merge_dict(original, override)
_merge_dict(original, override) ==
    IF DOMAIN override.items \ DOMAIN original.items # {}
    THEN [raised |-> "KeyError", value |-> Null]
    ELSE MergeKeys(original, override, Keys(original), <<>>)

\* An original and an override are given.
MergeInit ==
    /\ Entered
    /\ given \in [original : Originals, override : Overrides]
    /\ phase = "fixtures"
    /\ result = Null

\* _merge_dict(original, override)
MergeDict ==
    /\ phase = "fixtures"
    /\ result' = _merge_dict(given.original, given.override)
    /\ phase' = "merged"
    /\ UNCHANGED <<process, given>>

MergeNext == MergeDict

\* Originals merged with overrides.
MergeSpec == MergeInit /\ [][MergeNext]_vars

\* SYSTEM_PROFILE, four of its keys.
SYSTEM_PROFILE ==
    Dict([k \in {"number_of_cpus", "arch", "installed_services",
                 "installed_products"} |->
            CASE k = "number_of_cpus" -> Num(1)
              [] k = "arch" -> Str("x86-64")
              [] k = "installed_services" -> List(<<Str("ndb"), Str("krb5")>>)
              [] k = "installed_products" ->
                    List(<<Dict(Two("name", Str("eap"), "id", Str("123"))),
                           Dict(Two("name", Str("jbws"), "id", Str("321")))>>)])

\* Overrides of the profile: none, or at most MaxOverrides keys, one of them
\* a key the profile lacks, with a value of the key's type, of another
\* type, or a dict keyed by index.
ProfileOverrides ==
    {Null} \cup
    {Dict(m) : m \in UNION {[ks -> {Num(3), Str("ssh"),
                                    List(<<Str("ssh"), Str("cron")>>),
                                    Dict(One("#0", Str("ssh")))}] :
                ks \in {s \in SUBSET {"number_of_cpus", "arch",
                                      "installed_services",
                                      "system_memory_octets"} :
                          Cardinality(s) <= MaxOverrides}}}

\* system_profile(override=None): a bare return, which gives None.
system_profile(override) == Null

\* An override, or none, is given.
ProfileInit ==
    /\ Entered
    /\ given \in ProfileOverrides
    /\ phase = "override"
    /\ result = Null

\* system_profile(override)
SystemProfile ==
    /\ phase = "override"
    /\ result' = [raised |-> NoExc, value |-> system_profile(given)]
    /\ phase' = "profile"
    /\ UNCHANGED <<process, given>>

ProfileNext == SystemProfile

\* System profiles made for tests.
ProfileSpec == ProfileInit /\ [][ProfileNext]_vars

\* ------------------------------------------------------ TestProducer

\* Most messages sent to one producer.
MaxQueued == 3

\* Values sent: two that differ.
QueuedValues == {<<97>>, <<98>>}

\* A producer was constructed; nothing was sent.
ProducerInit ==
    /\ Entered
    /\ given = <<>>
    /\ result = TestProducer
    /\ phase = "producer"

\* producer.send(topic, value=value); given keeps what was sent, in order.
ProducerSend(topic, value) ==
    /\ phase = "producer"
    /\ Len(given) < MaxQueued
    /\ result' = send(result, topic, value)
    /\ given' = Append(given, [topic |-> topic, message |-> Message(value)])
    /\ UNCHANGED <<process, phase>>

\* producer.flush()
ProducerFlush ==
    /\ phase = "producer"
    /\ result' = flush(result)
    /\ UNCHANGED <<process, given, phase>>

ProducerNext ==
    \/ \E topic \in Topics, value \in QueuedValues : ProducerSend(topic, value)
    \/ ProducerFlush

\* One TestProducer, sent to and flushed in any order.
ProducerSpec == ProducerInit /\ [][ProducerNext]_vars

\* ------------------------------------------------ starting the consumer

\* Calls of start_consumer.
MaxStarts == 2

\* What every thread shares, and what the single loop of Spec had.
shared == <<delivered, pulled, db, system_profile_commit_count,
            system_profile_failure_count>>
single == <<session, pc, msg, data, exc, handled, commit_calls, commits,
            lookups, logs, passed, lastGood, lastOk, pre, raced,
            open, closed, g, producers, got, last, threadctx, records,
            pure>>

\* The process before start_consumer is called.
StartInit ==
    /\ db = InitialRows
    /\ delivered = 0
    /\ pulled = 0
    /\ system_profile_commit_count = 0
    /\ system_profile_failure_count = 0
    /\ threads = <<>>
    /\ pc = "unstarted"
    /\ session = InitialRows
    /\ msg = NoMsg
    /\ data = JsonNumber
    /\ exc = NoExc
    /\ handled = 0
    /\ commit_calls = 0
    /\ commits = 0
    /\ lookups = 0
    /\ logs = {}
    /\ passed = 0
    /\ lastGood = [h \in Hosts |-> InitialRows[h].system_profile_facts]
    /\ lastOk = [h \in Hosts |-> NoMsg]
    /\ pre = [db |-> InitialRows, session |-> InitialRows, commit_calls |-> 0,
              commits |-> 0, lookups |-> 0, handled |-> 0, commit_count |-> 0,
              failure_count |-> 0, lastOk |-> [h \in Hosts |-> NoMsg]]
    /\ raced = FALSE
    /\ NoProducers
    /\ NothingGiven

\* start_consumer(flask_app): Thread(target=_f, daemon=True).start()
StartConsumer ==
    /\ Len(threads) < MaxStarts
    /\ threads' = Append(threads, [pc |-> "while", msg |-> NoMsg,
                                   session |-> db])
    /\ UNCHANGED <<shared, single>>

\* "while True" in thread i.
ThreadIterate(i) ==
    /\ threads[i].pc = "while"
    /\ threads' = [threads EXCEPT ![i].pc = "for"]
    /\ UNCHANGED <<shared, single>>

\* The iterator of thread i ends.
ThreadIterationEnds(i) ==
    /\ threads[i].pc = "for"
    /\ threads' = [threads EXCEPT ![i].pc = "while"]
    /\ UNCHANGED <<shared, single>>

\* "for msg in consumer" in thread i.
ThreadPull(i) ==
    /\ threads[i].pc = "for"
    /\ pulled < delivered
    /\ pulled' = pulled + 1
    /\ \E v \in MessageValues :
        threads' = [threads EXCEPT ![i].pc = "try", ![i].msg = v]
    /\ UNCHANGED <<delivered, db, system_profile_commit_count,
                   system_profile_failure_count, single>>

\* The body of the for loop in thread i: try ... except Exception ...
ThreadBody(i) ==
    /\ threads[i].pc = "try"
    /\ LET l == loads(threads[i].msg) IN
        IF l.raised # NoExc
        THEN /\ system_profile_failure_count' = system_profile_failure_count + 1
             /\ threads' = [threads EXCEPT ![i].pc = "for"]
             /\ UNCHANGED <<db, system_profile_commit_count>>
        ELSE \E commit_ok \in BOOLEAN :
            LET r == msg_handler(l.data, threads[i].session, db, commit_ok) IN
            /\ db' = r.db
            /\ threads' = [threads EXCEPT
                              ![i].session = r.session,
                              ![i].pc = IF r.raised = NoExc
                                           \/ ExceptionCaught(r.raised)
                                        THEN "for" ELSE "dead"]
            /\ system_profile_commit_count' =
                 IF r.raised = NoExc THEN system_profile_commit_count + 1
                                     ELSE system_profile_commit_count
            /\ system_profile_failure_count' =
                 IF r.raised # NoExc /\ ExceptionCaught(r.raised)
                 THEN system_profile_failure_count + 1
                 ELSE system_profile_failure_count
    /\ UNCHANGED <<delivered, pulled, single>>

StartNext ==
    \/ StartConsumer
    \/ Deliver
    \/ \E i \in DOMAIN threads : ThreadIterate(i)
    \/ \E i \in DOMAIN threads : ThreadIterationEnds(i)
    \/ \E i \in DOMAIN threads : ThreadPull(i)
    \/ \E i \in DOMAIN threads : ThreadBody(i)

\* The process, with start_consumer called any number of times.
StartSpec == StartInit /\ [][StartNext]_vars

\* The loop is between two messages.
AtBoundary == pc \in {"for", "while"}

\* The loop has finished a message and msg, exc, logs and pre describe it.
Finished == AtBoundary /\ pulled > 0

\* ------------------------------------------------------------------ claims

C2_OneCommitPerSuccess ==
    /\ commits <= commit_calls
    /\ commit_calls <= passed
    /\ Finished =>
          /\ (Passes(msg) /\ exc = NoExc) =>
                (commit_calls = pre.commit_calls + 1 /\ commits = pre.commits + 1)
          /\ (EmptyId(msg) \/ HostMissing(msg) \/ Invalid(msg)) =>
                (commit_calls = pre.commit_calls /\ commits = pre.commits)

\* After one commit and one early return, a validation error left the
\* number of commits at one.
C2_Witness ==
    /\ Finished
    /\ pulled = 3
    /\ Invalid(msg)
    /\ exc = "ValidationError"
    /\ handled = 3
    /\ lookups = 2
    /\ commits = 1
    /\ commit_calls = 1

C4_InvalidLeavesHost ==
    (Finished /\ Invalid(msg)) =>
        /\ exc = "ValidationError"
        /\ session = pre.session
        /\ db = pre.db
        /\ commit_calls = pre.commit_calls

\* A host that an earlier message had updated was sent an invalid profile.
C4_Witness ==
    /\ Finished
    /\ Invalid(msg)
    /\ exc = "ValidationError"
    /\ db[IdOf(msg)].system_profile_facts # InitialRows[IdOf(msg)].system_profile_facts

\* C5: for an empty id or an id of no host the handler logs an error and
\* returns without raising; rows and commits are as before, and no lookup is
\* made for an empty id.
C5_EarlyReturnNoEffect ==
    (Finished /\ (EmptyId(msg) \/ HostMissing(msg))) =>
        /\ exc = NoExc
        /\ session = pre.session
        /\ db = pre.db
        /\ commit_calls = pre.commit_calls
        /\ EmptyId(msg) =>
              (lookups = pre.lookups /\ logs = {"error: ID is null"})
        /\ HostMissing(msg) =>
              (lookups = pre.lookups + 1 /\ logs = {"error: host not found"})

\* A message with the id "" was dropped after a host had been updated.
C5_Witness ==
    /\ Finished
    /\ EmptyId(msg)
    /\ IdOf(msg) = ""
    /\ exc = NoExc
    /\ pre.commits = 1
    /\ lookups = 1

\* C6: a body that is no JSON raises in json.loads, which the loop catches:
\* the handler is not called, nothing is committed and the thread lives on.
C6_UndecodableSkipped ==
    /\ msg = Garbage => pc # "dead"
    /\ (Finished /\ msg = Garbage) =>
          /\ exc = "JSONDecodeError"
          /\ handled = pre.handled
          /\ commit_calls = pre.commit_calls
          /\ db = pre.db
          /\ session = pre.session

\* An undecodable body was skipped and the loop is ready for the message
\* that has been delivered after it.
C6_Witness ==
    /\ pc = "for"
    /\ msg = Garbage
    /\ exc = "JSONDecodeError"
    /\ handled = 0
    /\ pulled = 1
    /\ delivered = 2

\* C7: a commit that fails raises out of the handler, the loop catches and
\* logs it, the durable rows are as before the message and the thread lives
\* on.
C7_CommitFailureContained ==
    /\ exc = "SQLAlchemyError" => pc # "dead"
    /\ (Finished /\ exc = "SQLAlchemyError") =>
          /\ Passes(msg)
          /\ db = pre.db
          /\ commits = pre.commits
          /\ commit_calls = pre.commit_calls + 1
          /\ "exception: uncaught exception in handler" \in logs

\* The commit of a profile that differs from the stored one failed, and the
\* loop is ready for the next message.
C7_Witness ==
    /\ pc = "for"
    /\ exc = "SQLAlchemyError"
    /\ Passes(msg)
    /\ db[IdOf(msg)].system_profile_facts # SchemaData(ProfileOf(msg))
    /\ pulled < delivered

\* C8: the thread never ends; if it is scheduled fairly it pulls every
\* message the stream delivers; a message is handed to the handler at most
\* once, and no step of the thread puts a message back on the stream.
C8_EveryDeliveryPulledOnce ==
    /\ \A n \in 1..MaxMsgs : (delivered >= n) ~> (pulled >= n)
    /\ [](pc # "dead" /\ handled <= pulled /\ handled - pre.handled <= 1)
    /\ [][pc' # pc => delivered' = delivered]_vars

\* Every delivery has been pulled, failed ones included.
C8_Witness ==
    /\ Finished
    /\ pulled = MaxMsgs
    /\ handled < pulled
    /\ system_profile_failure_count >= 2

\* C9: when the message handled successfully is the one that was last
\* handled successfully for the same host, the host's profile is what it was
\* after the first handling.
C9_RedeliveryHarmless ==
    (Finished /\ Passes(msg) /\ exc = NoExc /\ pre.lastOk[IdOf(msg)] = msg) =>
        /\ db[IdOf(msg)] = pre.db[IdOf(msg)]
        /\ session[IdOf(msg)] = pre.session[IdOf(msg)]

\* A message that changed a host's profile was handled a second time.
C9_Witness ==
    /\ Finished
    /\ Passes(msg)
    /\ exc = NoExc
    /\ pre.lastOk[IdOf(msg)] = msg
    /\ db[IdOf(msg)].system_profile_facts # InitialRows[IdOf(msg)].system_profile_facts

\* C10: an undecodable body, a missing host, a validation failure and a
\* commit failure each add one to the failure counter.
C10_EveryErrorCounted ==
    (Finished /\ (msg = Garbage \/ HostMissing(msg) \/ Invalid(msg)
                    \/ exc = "SQLAlchemyError")) =>
        system_profile_failure_count = pre.failure_count + 1

\* C11: an exception raised while a metric is recorded (deserialization
\* timer, commit counter, failure counter) never ends the consumer thread.
C11_MetricFailureContained == pc # "dead"

C13_AtMostOneConsumer == Len(threads) <= 1

\* C14: get_producer constructs a producer only when it is called, once per
\* context: every call in one context returns the instance the first call
\* there constructed, and no instance is returned in two contexts.
C14_OneProducerPerContext ==
    /\ \A c \in Contexts : \A i \in DOMAIN got[c] : got[c][i] = got[c][1]
    /\ \A c, d \in Contexts : \A i \in DOMAIN got[c], j \in DOMAIN got[d] :
            got[c][i] = got[d][j] => c = d
    /\ Len(producers) = Cardinality({c \in Contexts : got[c] # <<>>})

\* get_producer was called twice in one context and once in another.
C14_Witness ==
    \E c, d \in Contexts :
        /\ c # d
        /\ Len(got[c]) = 2
        /\ Len(got[d]) >= 1
        /\ last.op = "get"

\* C15: when emit_event returns, the UTF-8 encoding of its payload is among
\* the sent messages of the event topic, and the producer has no message
\* pending on any topic.
C15_EmitSendsAndFlushes ==
    last.op = "emit" =>
        LET p == producers[last.id] IN
        /\ EVENT_TOPIC \in DOMAIN p.sent_messages
        /\ \E k \in DOMAIN p.sent_messages[EVENT_TOPIC] :
              LET v == p.sent_messages[EVENT_TOPIC][k].value IN
              /\ \A i \in DOMAIN v : v[i] \in 0..255
              /\ decode(v) = last.e
        /\ \A tp \in DOMAIN p.pending_messages : p.pending_messages[tp] = <<>>

\* emit_event returned for a payload outside ASCII, on a producer that had
\* a message pending on the other topic.
C15_Witness ==
    /\ last.op = "emit"
    /\ \E i \in DOMAIN last.e : last.e[i] >= 128
    /\ LET p == producers[last.id] IN
        /\ DOMAIN p.pending_messages = Topics
        /\ Len(p.sent_messages["other"]) = 1

\* C16: while msg_handler runs, threadctx.request_id is the request_id of
\* the message being handled, and every record the handler emits for the
\* message carries that request id.
C16_RequestIdDuringCall ==
    HasRequestId =>
        /\ InHandler => threadctx = msg.text.members.request_id
        /\ \A r \in records :
              r.by = "msg_handler" => r.request_id = msg.text.members.request_id

\* C17: a tag written by to_string and read back by from_string has the
\* namespace, key and value it had, reserved characters included; an
\* absent namespace or value comes back absent.
C17_TagStringRoundTrip == phase = "tag" => result = given

\* A tag was read back whose key is "/" and whose value holds "%", "=" and
\* a backslash, or the text of an escape, "%2F".
C17_Witness ==
    /\ phase = "tag"
    /\ given.key = <<"/">>
    /\ given.value.text \in {<<"%", "=", "\\">>, <<"%", "2", "F">>}
    /\ result.value.text = given.value.text

\* C18: a namespace that occurs in several items of the list has one entry
\* in the result; its keys are those of all its occurrences, and each key
\* has the value of the latest occurrence that has it.
C18_DuplicateNamespacesMerged ==
    (phase = "deserialized" /\ AllMappings) =>
        /\ result.raised = NoExc
        /\ DOMAIN result.value = {given.items[i].namespace : i \in DOMAIN given.items}
        /\ \A ns \in DOMAIN result.value :
              /\ KeysOf(result.value[ns]) =
                    UNION {KeysOf(given.items[i].facts) : i \in Occurrences(ns)}
              /\ \A k \in KeysOf(result.value[ns]) :
                    \E i \in Occurrences(ns) :
                        /\ k \in KeysOf(given.items[i].facts)
                        /\ result.value[ns].items[k] = given.items[i].facts.items[k]
                        /\ \A j \in Occurrences(ns) :
                              j > i => k \notin KeysOf(given.items[j].facts)

\* A namespace occurred twice: the later occurrence changed one key of the
\* earlier and lacked another, which was kept.
C18_Witness ==
    /\ phase = "deserialized"
    /\ AllMappings
    /\ \E i, j \in DOMAIN given.items :
          LET ns == given.items[i].namespace
              early == given.items[i].facts.items
              late == given.items[j].facts.items
          IN /\ i < j
             /\ given.items[j].namespace = ns
             /\ DOMAIN early = {"a", "b"}
             /\ DOMAIN late = {"a"}
             /\ early["a"] # late["a"]
             /\ result.value[ns].items = [early EXCEPT !["a"] = late["a"]]

\* C19: the mapping _deserialize_facts returns has no namespace mapped to
\* null: facts that are null or {} are stored as an empty mapping.
C19_NoNullNamespace ==
    (phase = "deserialized" /\ result.raised = NoExc) =>
        \A ns \in DOMAIN result.value :
            /\ result.value[ns] # Null
            /\ (\E i \in Occurrences(ns) : KeysOf(given.items[i].facts) # {})
                  \/ result.value[ns] = Dict(<<>>)

\* C20: facts without null values, serialized and deserialized, are the
\* facts given; the serialized list has one item per namespace, with
\* facts {} for a namespace that has none.
C20_FactsRoundTrip ==
    /\ phase = "serialized" =>
          /\ Len(result.items) = Cardinality(DOMAIN given)
          /\ \A ns \in DOMAIN given :
                \E i \in DOMAIN result.items :
                    /\ result.items[i].namespace = ns
                    /\ result.items[i].facts =
                          IF KeysOf(given[ns]) = {} THEN Dict(<<>>) ELSE given[ns]
    /\ (phase = "round trip" /\ \A ns \in DOMAIN given : given[ns] # Null) =>
          /\ result.raised = NoExc
          /\ result.value = given

\* Facts of two namespaces, one of them empty, were serialized and read
\* back.
C20_Witness ==
    /\ phase = "round trip"
    /\ DOMAIN given = Namespaces
    /\ given["n1"] = Dict(<<>>)
    /\ KeysOf(given["n2"]) = FactKeys
    /\ result.value = given

\* C21: _deserialize_facts raises InputFormatException and returns no
\* mapping when an item of the list lacks the namespace or the facts key,
\* wherever in the list the item is; a null list gives the empty mapping.
C21_MissingKeyRaises ==
    (phase = "deserialized" /\ ~NullMerged) =>
        /\ SomeItemBad =>
              result = [raised |-> "InputFormatException", value |-> <<>>]
        /\ given = Null => result = [raised |-> NoExc, value |-> <<>>]

\* Two well-formed items of different namespaces were followed by one
\* without facts, and the call raised.
C21_Witness ==
    /\ phase = "deserialized"
    /\ ~NullMerged
    /\ given.type = "list"
    /\ Len(given.items) = 3
    /\ given.items[1] \in GoodItems
    /\ given.items[2] \in GoodItems
    /\ given.items[1].namespace # given.items[2].namespace
    /\ given.items[3] = [namespace |-> "n1"]
    /\ result.raised = "InputFormatException"

\* C22: the canonical facts taken from a payload are the recognized fields
\* whose value is not null, not "" and not an empty sequence, each with the
\* payload's value; no other key is in the result.
C22_CanonicalFactsExtracted ==
    phase = "extracted" =>
        /\ \A k \in PayloadKeys :
              k \in DOMAIN result <=>
                  /\ k \in CANONICAL_FACTS_FIELDS
                  /\ k \in DOMAIN given
                  /\ given[k] \notin {Null, Str(""), List(<<>>)}
        /\ \A k \in DOMAIN result : result[k] = given[k]

\* A payload with a recognized field and an unknown key, and one with an
\* empty and a filled field, were extracted from.
C22_Witness ==
    /\ phase = "extracted"
    /\ \/ DOMAIN given = {"fqdn", "unknown"} /\ DOMAIN result = {"fqdn"}
       \/ /\ DOMAIN given = {"insights_id", "ip_addresses"}
          /\ given["insights_id"] = Str("")
          /\ DOMAIN result = {"ip_addresses"}

\* C23: serialize_canonical_facts returns a mapping of exactly the nine
\* canonical fact fields: the input's value where the input has the field,
\* null where it has not.
C23_NineKeysAlways ==
    phase = "with defaults" =>
        /\ DOMAIN result = CANONICAL_FACTS_FIELDS
        /\ Cardinality(DOMAIN result) = 9
        /\ \A f \in CANONICAL_FACTS_FIELDS :
              result[f] = IF f \in DOMAIN given THEN given[f] ELSE Null

\* The empty mapping, and a mapping with one field, were serialized.
C23_Witness ==
    /\ phase = "with defaults"
    /\ DOMAIN given = {"fqdn"}
    /\ given["fqdn"] = Str("some fqdn")
    /\ result["fqdn"] = Str("some fqdn")
    /\ result["insights_id"] = Null

\* The values of the tags of one namespace and key, in the tags' order.
ValuesOf(tags, ns, k) ==
    LET with == SelectSeq(tags, LAMBDA t :
                    t.namespace = ns /\ t.key = k /\ t.value.present)
    IN [i \in DOMAIN with |-> with[i].value.text]

\* C27: Tag.create_nested_from_tags gives the mapping whose namespaces and
\* keys are those of the tags, the value list of a namespace and key being
\* the values of all tags of that namespace and key in the tags' order; a
\* key whose tags have no value has an empty list, and no tags give {}.
C27_NestedAccumulates ==
    phase = "nested" =>
        /\ DOMAIN result = {given[i].namespace : i \in DOMAIN given}
        /\ \A ns \in DOMAIN result :
              /\ DOMAIN result[ns] =
                    {given[i].key : i \in {j \in DOMAIN given : given[j].namespace = ns}}
              /\ \A k \in DOMAIN result[ns] :
                    result[ns][k] = ValuesOf(given, ns, k)
        /\ given = <<>> => result = <<>>

\* Two tags of one namespace and key were folded after a tag without value:
\* both values are listed, and the other key has an empty list.
C27_Witness ==
    /\ phase = "nested"
    /\ Len(given) = 3
    /\ given[1] = [namespace |-> Present(<<"2">>), key |-> <<"2">>, value |-> Absent]
    /\ given[2] = [namespace |-> Present(<<"2">>), key |-> <<"F">>,
                   value |-> Present(<<"F">>)]
    /\ given[3] = [namespace |-> Present(<<"2">>), key |-> <<"F">>,
                   value |-> Present(<<"2">>)]
    /\ result[Present(<<"2">>)][<<"F">>] = << <<"F">>, <<"2">> >>
    /\ result[Present(<<"2">>)][<<"2">>] = <<>>

\* No canonical fact field of the payload has a value.
NoCanonicalFact ==
    \A f \in CANONICAL_FACTS_FIELDS :
        f \notin DOMAIN given \/ given[f] \in {Null, Str(""), List(<<>>)}

\* C24: deserialize_host raises and returns no host when each of the nine
\* canonical fact fields of the payload is absent, empty or null; the
\* canonical facts of every host it returns are not empty.
C24_NoHostWithoutCanonicalFacts ==
    phase = "host" =>
        /\ NoCanonicalFact =>
              /\ result.raised \in {"InventoryException", "ValidationException"}
              /\ result.host = Null
        /\ result.raised = NoExc =>
              /\ result.host # Null
              /\ DOMAIN result.host.canonical_facts # {}

\* A payload that the schema accepts, its only canonical fact field an empty
\* list, was refused by Host.
C24_Witness ==
    /\ phase = "host"
    /\ DOMAIN given = {"account", "ip_addresses"}
    /\ given["ip_addresses"] = List(<<>>)
    /\ result.raised = "InventoryException"
    /\ result.calls[Len(result.calls)] = "Host"

\* C25: when the schema rejects the payload, deserialize_host raises
\* ValidationException having called nothing but the schema: not
\* _deserialize_canonical_facts, _deserialize_facts or _deserialize_tags,
\* and not Host.
C25_ValidatesFirst ==
    (phase = "host" /\ HostSchemaErrors(given) # {}) =>
        /\ result.raised = "ValidationException"
        /\ result.calls = <<"HostSchema.load">>
        /\ result.host = Null

\* A payload with an fqdn and facts that are not a list was rejected.
C25_Witness ==
    /\ phase = "host"
    /\ DOMAIN given = {"account", "fqdn", "facts"}
    /\ given["fqdn"] = Str("some fqdn")
    /\ HostSchemaErrors(given) = {"facts"}
    /\ result.raised = "ValidationException"

\* C26: the host's display_name is null when the payload's is absent, null
\* or "", its ansible_host is null when the payload's is absent or null and
\* "" when it is "", its system profile is {} when the payload's is absent,
\* null or {}; any other value is carried over.
C26_Defaults ==
    (phase = "host" /\ result.raised = NoExc) =>
        /\ result.host.display_name =
              IF "display_name" \notin DOMAIN given
                 \/ given["display_name"] \in {Null, Str("")}
              THEN Null ELSE given["display_name"]
        /\ result.host.ansible_host =
              IF "ansible_host" \notin DOMAIN given THEN Null
              ELSE given["ansible_host"]
        /\ result.host.system_profile_facts =
              IF "system_profile" \notin DOMAIN given
                 \/ given["system_profile"] \in {Null, Dict(<<>>)}
              THEN Dict(<<>>) ELSE given["system_profile"]

\* A host was made of a payload whose display_name and ansible_host are ""
\* and whose system profile is null.
C26_Witness ==
    /\ phase = "host"
    /\ result.raised = NoExc
    /\ "display_name" \in DOMAIN given /\ given["display_name"] = Str("")
    /\ "ansible_host" \in DOMAIN given /\ given["ansible_host"] = Str("")
    /\ "system_profile" \in DOMAIN given /\ given["system_profile"] = Null
    /\ result.host.display_name = Null
    /\ result.host.ansible_host = Str("")
    /\ result.host.system_profile_facts = Dict(<<>>)

\* C28: once the loop is done with a message, that message has added one to
\* exactly one of the two counters, the commit counter when neither
\* json.loads nor the handler raised and the failure counter otherwise; the
\* two counters add up to the number of messages pulled.
C28_ExactlyOneCounter ==
    (pc \in {"for", "while", "dead"} /\ pulled > 0) =>
        /\ system_profile_commit_count + system_profile_failure_count = pulled
        /\ IF exc = NoExc
           THEN /\ system_profile_commit_count = pre.commit_count + 1
                /\ system_profile_failure_count = pre.failure_count
           ELSE /\ system_profile_commit_count = pre.commit_count
                /\ system_profile_failure_count = pre.failure_count + 1

\* Two messages are done with, one counted by each counter.
C28_Witness ==
    /\ pc = "for"
    /\ pulled = 2
    /\ system_profile_commit_count = 1
    /\ system_profile_failure_count = 1
    /\ exc # NoExc

C31_IteratesAgain ==
    /\ (pc = "while") ~> (pc = "for")
    /\ (pc = "while" /\ pulled < delivered)
          ~> (AtBoundary /\ pulled = delivered
                /\ handled + system_profile_failure_count >= pulled)
    /\ [][(pc = "for" /\ pc' = "while") =>
              (db' = db /\ session' = session /\ pulled' = pulled)]_vars

\* An iteration ended after the first message, and a second message has
\* been delivered since.
C31_Witness ==
    /\ pc = "while"
    /\ pulled = 1
    /\ handled = 1
    /\ delivered = 2

\* C32: with offset = (page - 1) * per_page, check_pagination aborts with 404
\* exactly when the total is not zero and the offset is at least the total;
\* so never for a total of zero and never for an offset below the total.
C32_AbortsPastTheEnd ==
    phase = "checked" =>
        /\ result.offset = (given.page - 1) * given.per_page
        /\ result.limit = given.per_page
        /\ result.aborted = "404" <=>
              (given.total # 0 /\ (given.page - 1) * given.per_page >= given.total)
        /\ given.total = 0 => result.aborted = NoExc
        /\ (given.page - 1) * given.per_page < given.total => result.aborted = NoExc

\* The third page of an empty result set was asked for and not refused.
C32_Witness ==
    /\ phase = "checked"
    /\ given.total = 0
    /\ given.page = 3
    /\ result.offset > 0
    /\ result.aborted = NoExc

\* What a merge of depth one gives for a key: the override's value when the
\* override has the key, the original's otherwise.
Overlaid(original, override, k) ==
    IF k \in DOMAIN override.items THEN override.items[k] ELSE original.items[k]

\* Both values of the key are dicts.
BothDicts(original, override, k) ==
    /\ k \in DOMAIN override.items
    /\ original.items[k].type = "dict"
    /\ override.items[k].type = "dict"

\* C33: a merge that succeeds gives a dict of exactly the original's keys; a
\* key the override lacks keeps the original's value, a key whose values are
\* not both dicts takes the override's value, and a key whose values are
\* both dicts is merged in the same way, one level down; for dicts without
\* dicts inside the result is {**original, **override}.
C33_MergeOverlays ==
    (phase = "merged" /\ result.raised = NoExc) =>
        LET o == given.original
            v == given.override
            r == result.value
        IN /\ r.type = "dict"
           /\ DOMAIN r.items = DOMAIN o.items
           /\ \A k \in DOMAIN o.items :
                 IF ~BothDicts(o, v, k)
                 THEN r.items[k] = Overlaid(o, v, k)
                 ELSE /\ DOMAIN r.items[k].items = DOMAIN o.items[k].items
                      /\ \A j \in DOMAIN o.items[k].items :
                            IF ~BothDicts(o.items[k], v.items[k], j)
                            THEN r.items[k].items[j] =
                                    Overlaid(o.items[k], v.items[k], j)
                            ELSE DOMAIN r.items[k].items[j].items =
                                    DOMAIN o.items[k].items[j].items
           /\ (\A k \in DOMAIN o.items : o.items[k].type # "dict") =>
                 r.items = [k \in DOMAIN o.items |-> Overlaid(o, v, k)]

\* A dict of two keys was merged with an override of one of its keys and of
\* one key of the dict inside the other.
C33_Witness ==
    /\ phase = "merged"
    /\ result.raised = NoExc
    /\ given.original = Dict(Two("a", Num(1), "b", Dict(Two("x", Num(1), "y", Str("1")))))
    /\ given.override = Dict(Two("a", Num(2), "b", Dict(One("x", Num(2)))))
    /\ result.value = Dict(Two("a", Num(2), "b", Dict(Two("x", Num(2), "y", Str("1")))))

\* The override has a key that the original lacks, in the dict itself or in
\* a dict inside that it overrides by a dict.
RECURSIVE MissingKey(_, _)
MissingKey(original, override) ==
    \/ DOMAIN override.items \ DOMAIN original.items # {}
    \/ \E k \in DOMAIN override.items \cap DOMAIN original.items :
          /\ BothDicts(original, override, k)
          /\ MissingKey(original.items[k], override.items[k])

\* The override has a value of another type than the original's.
RECURSIVE TypeDiffers(_, _)
TypeDiffers(original, override) ==
    \E k \in DOMAIN override.items \cap DOMAIN original.items :
        \/ override.items[k].type # original.items[k].type
        \/ /\ BothDicts(original, override, k)
           /\ TypeDiffers(original.items[k], override.items[k])

\* C34: _merge_dict returns a result exactly when the override has no key
\* that the original lacks and no value of another type, at any depth of
\* dicts. It raises KeyError when only keys are missing or a key is missing
\* in the outermost dict, TypeError when only types differ, and one of the
\* two when both are the case; no result is returned then.
C34_RejectsMisfit ==
    phase = "merged" =>
        LET missing == MissingKey(given.original, given.override)
            differs == TypeDiffers(given.original, given.override)
        IN /\ result.raised = NoExc <=> (~missing /\ ~differs)
           /\ result.raised # NoExc => result.value = Null
           /\ result.raised \in {NoExc, "KeyError", "TypeError"}
           /\ (missing /\ ~differs) => result.raised = "KeyError"
           /\ (differs /\ ~missing) => result.raised = "TypeError"
           /\ DOMAIN given.override.items \ DOMAIN given.original.items # {} =>
                 result.raised = "KeyError"

\* The override has a string for the int of key a and, in the dict of key
\* b, a key that the original lacks: TypeError was raised.
C34_Witness ==
    /\ phase = "merged"
    /\ given.original = Dict(Two("a", Num(1), "b", Dict(One("x", Num(1)))))
    /\ given.override = Dict(Two("a", Str("2"), "b", Dict(One("z", Num(2)))))
    /\ result.raised = "TypeError"

\* The key that stands for the index of the i-th element of a list.
IndexKey(i) == <<"#0", "#1", "#2">>[i]

\* C35: where the original has a list, an override that is a dict keyed by
\* index replaces the elements at its indexes and keeps the others, raises
\* KeyError for an index outside the list, and an override that is a list
\* replaces the list.
C35_ListOverriddenByIndex ==
    phase = "merged" =>
        \A k \in DOMAIN given.original.items :
            (DOMAIN given.override.items = {k} /\ given.original.items[k].type = "list") =>
                LET elements == given.original.items[k].items
                    by == given.override.items[k]
                IN /\ by.type = "list" =>
                        (result.raised = NoExc /\ result.value.items[k] = by)
                   /\ (by.type = "dict"
                         /\ DOMAIN by.items \subseteq {IndexKey(i) : i \in DOMAIN elements}) =>
                        /\ result.raised = NoExc
                        /\ result.value.items[k] =
                              List([i \in DOMAIN elements |->
                                      IF IndexKey(i) \in DOMAIN by.items
                                      THEN by.items[IndexKey(i)] ELSE elements[i]])
                   /\ (by.type = "dict"
                         /\ \E j \in DOMAIN by.items : j \in {"#0", "#1", "#2"}
                         /\ ~(DOMAIN by.items \subseteq {IndexKey(i) : i \in DOMAIN elements})) =>
                        result.raised = "KeyError"

\* C36: system_profile() gives a document equal to SYSTEM_PROFILE;
\* system_profile(override) raises KeyError for a key that SYSTEM_PROFILE
\* lacks and otherwise gives SYSTEM_PROFILE with the values of the
\* override's keys, where those are of the original's type.
C36_ProfileWithOverride ==
    phase = "profile" =>
        /\ given = Null =>
              (result.raised = NoExc /\ result.value = SYSTEM_PROFILE)
        /\ (given # Null /\ MissingKey(SYSTEM_PROFILE, given)) =>
              result.raised = "KeyError"
        /\ (given # Null /\ ~MissingKey(SYSTEM_PROFILE, given)
              /\ ~TypeDiffers(SYSTEM_PROFILE, given)) =>
              /\ result.raised = NoExc
              /\ result.value =
                    Dict([k \in DOMAIN SYSTEM_PROFILE.items |->
                            Overlaid(SYSTEM_PROFILE, given, k)])

\* The messages sent to a topic so far, in the order of the calls of send.
SentTo(tp) ==
    LET calls == SelectSeq(given, LAMBDA c : c.topic = tp)
    IN [i \in DOMAIN calls |-> calls[i].message]

\* The list of a topic in a dict of lists, empty without the topic.
ListOf(d, tp) == IF tp \in DOMAIN d THEN d[tp] ELSE <<>>

\* How often m is in s.
Count(s, m) == Cardinality({i \in DOMAIN s : s[i] = m})

\* C37: whatever was sent and flushed, the pending and the sent messages of
\* a topic together are the messages sent to it, each as often as it was
\* sent. send appends its message to the topic's pending list and changes
\* nothing else; flush leaves every pending list empty and every sent list
\* longer by the messages that were pending.
C37_NothingLostOrDuplicated ==
    /\ [](phase = "producer" =>
            \A tp \in Topics :
                LET held == ListOf(result.pending_messages, tp)
                                \o ListOf(result.sent_messages, tp)
                IN /\ Len(held) = Len(SentTo(tp))
                   /\ \A v \in QueuedValues :
                         Count(held, Message(v)) = Count(SentTo(tp), Message(v)))
    /\ [][(phase = "producer" /\ given' # given) =>
            /\ result'.sent_messages = result.sent_messages
            /\ \A tp \in Topics :
                  ListOf(result'.pending_messages, tp) =
                      IF given'[Len(given')].topic = tp
                      THEN Append(ListOf(result.pending_messages, tp),
                                  given'[Len(given')].message)
                      ELSE ListOf(result.pending_messages, tp)]_vars
    /\ [][(phase = "producer" /\ given' = given) =>
            \A tp \in Topics :
                /\ ListOf(result'.pending_messages, tp) = <<>>
                /\ Len(ListOf(result'.sent_messages, tp)) =
                      Len(ListOf(result.sent_messages, tp))
                          + Len(ListOf(result.pending_messages, tp))]_vars

\* Two messages of one topic and one of the other were flushed at once
\* after three calls of send.
C37_Witness ==
    /\ phase = "producer"
    /\ Len(given) = 3
    /\ Len(ListOf(result.sent_messages, EVENT_TOPIC)) = 2
    /\ Len(ListOf(result.sent_messages, "other")) = 1
    /\ ListOf(result.pending_messages, EVENT_TOPIC) = <<>>
    /\ ListOf(result.pending_messages, "other") = <<>>

\* C38: the sent messages of a topic are in the order in which they were
\* sent: they are the first of the messages sent to the topic, in the order
\* of the calls of send.
C38_SendOrderKept ==
    phase = "producer" =>
        \A tp \in Topics :
            ListOf(result.sent_messages, tp) =
                SubSeq(SentTo(tp), 1, Len(ListOf(result.sent_messages, tp)))

====
